---- MODULE Spec2Model ----
(***************************************************************************)
(* State-machine model of the bid-assistant backend.                       *)
(*                                                                         *)
(* The module holds one group of variables per component, and one          *)
(* specification per component:                                            *)
(*   SpecRepository  python-backend/workflows/repository.py                *)
(*   SpecManager     python-backend/agents/agent_manager.py                *)
(*   SpecMemory      python-backend/memory/tenant_memory.py                *)
(*   SpecIsolation, SpecFeedback, SpecConfidence, SpecPreference           *)
(*                   python-backend/memory/memory_manager.py and the       *)
(*                   service above, one group of calls each                *)
(*   SpecRetry       python-backend/agents/error_handling.py (with_retry)  *)
(*   SpecEngine, SpecStepRetry                                             *)
(*                   src/core/resilient_workflow.py                        *)
(*   SpecSync        python-backend/api/websocket_sync.py                  *)
(*   SpecCache, SpecWithCache, SpecParallel                                *)
(*                   python-backend/agents/performance_optimization.py     *)
(*   SpecMonitoring  python-backend/agents/monitoring.py                   *)
(*   SpecWsAgent, SpecUserInput                                            *)
(*                   python-backend/agents/websocket_aware_agent.py        *)
(*   SpecGeneration  python-backend/agents/collaborative_workflow.py       *)
(*   SpecCheckpoint, SpecDelay                                             *)
(*                   python-backend/agents/error_handling.py               *)
(*                   (CheckpointManager, RetryConfig.get_delay)            *)
(*   SpecRecovery    python-backend/agents/error_handling.py               *)
(*                   (ErrorRecoveryManager)                                *)
(*   SpecHealth      python-backend/monitoring/metrics.py                  *)
(*   SpecOptimizer   python-backend/agents/performance_optimization.py     *)
(*                   (ResourceOptimizer)                                   *)
(*   SpecTimeout     src/core/coordinator.py (TimeoutManager)              *)
(*   SpecContext     src/generator/generator.py (ContextPreservation)      *)
(*   SpecActivity    python-backend/monitoring/system_monitor.py           *)
(* A component's actions leave the other components' variables unchanged.  *)
(***************************************************************************)
EXTENDS Integers, Sequences, FiniteSets, TLC

None == "None"

(***************************************************************************)
(* Bounds of the model.                                                    *)
(***************************************************************************)
MaxWorkflows == 1
MaxCheckpoints == 1
MaxRuns == 2
MaxMinutes == 20
TickMinutes == 10
MaxRetriesInput == 3
MaxStepRetries == 1
MaxMemories == 2
MaxClock == 3
MaxTtl == 1
DefaultTtl == 2
MaxTasks == 3
MaxConcurrent == 2
MaxInvocations == 2
MaxFeedbacks == 2
MaxRowId == 6
MaxRules == 2
MaxMetricEntries == 2
MaxAlertHistory == 2
MaxSegments == 7
MaxStackLen == 2
max_context_depth == 10
MaxErrorHistory == 1
MaxCalls == 3
MaxRetryCount == 2
MaxAttempt == 7
MaxPromptLen == 4
MaxMetrics == 6
MaxUtcNow == 10
MaxIterations == 3
MaxProgressUpdates == 2

Tenants == {"tenantA", "tenantB"}

VARIABLES
    \* ---- WorkflowStateRepository (the workflow_states table) ----
    workflow_states,      \* set of WorkflowState rows
    workflow_checkpoints, \* workflow_id -> number of WorkflowCheckpoint rows
    next_workflow_id,     \* the next fresh workflow_id (uuid4 default)
    created_by,           \* history: workflow_id -> tenant of the creating context
    repo_ret,             \* the last repository call and what it returned
    \* ---- AgentWorkflowManager ----
    workflows,            \* self.workflows: workflow_id -> runtime record
    group_chats,          \* the keys of self.group_chats
    task_pc,              \* workflow_id -> where its background task stands
    task_stage,           \* workflow_id -> the stage the task awaits (1..4)
    progress_log,         \* history: the progress values written to the record
    stage_log,            \* history: the stage agents' starts and returns
    cancelled_at,         \* history: the task's stage at the first cancel_workflow
    task_exc,             \* history: the exception raised inside the pipeline
    \* ---- TenantMemoryService over MemoryManager ----
    user_memories,        \* set of UserMemory rows
    user_preferences,     \* set of UserPreference rows
    user_feedbacks,       \* set of UserFeedback rows
    next_row_id,          \* the next fresh primary key (uuid4 default)
    memory_cache,         \* self._memory_cache: cache key -> [data, timestamp]
    now,                  \* datetime.utcnow(), in minutes
    mem_ret,              \* the last service call and what it returned
    \* ---- one call of a with_retry wrapper ----
    retry_config,         \* the RetryConfig of the decorator
    has_fallback,         \* whether a fallback callable was supplied
    retry_pc,             \* "call", "sleep", "fallback", "returned" or "raised"
    attempt,              \* the loop variable of the retry loop
    last_exception,       \* the wrapper's last_exception
    pending_delay,        \* the delay the wrapper is sleeping for
    func_calls,           \* history: how each invocation of the wrapped function ended
    sleeps,               \* history: the delays slept, in order
    fallback_calls,       \* history: how each invocation of the fallback ended
    retry_ret,            \* how the wrapper call ended
    \* ---- ResilientWorkflowEngine over MemoryWorkflowStorage, one workflow_id ----
    wf,                   \* the WorkflowState object execute_workflow creates
    ws_stored,            \* whether storage.workflow_states holds (a reference to) it
    stored_steps,         \* storage.workflow_steps.get(workflow_id, [])
    checkpoint,           \* storage.checkpoints[workflow_id], or no checkpoint
    active,               \* whether workflow_id is in engine.active_workflows
    exec_pc,              \* where the execute_workflow call stands
    exec_steps,           \* the steps argument of execute_workflow
    exec_ret,             \* what execute_workflow returned
    loop_pc,              \* per step loop: where it stands (0: the task of
                          \* execute_workflow; 1..: the resume_workflow calls)
    loop_steps,           \* per step loop: its steps argument
    loop_cur,             \* per step loop: current_step
    loop_attempt,         \* per step loop: attempt of _execute_step_with_retry
    loop_exc,             \* per step loop: the exception that ended it
    attempt_log,          \* history: every start of a step's agent
    \* ---- WebSocketSyncService and its endpoints ----
    active_workflows,     \* websocket_sync_service.active_workflows
    sync_ret,             \* the last endpoint call and its response
    \* ---- CacheManager ----
    cache,                \* self.cache: key -> entry
    clock,                \* datetime.now(), in seconds
    cache_ret,            \* the last CacheManager call and what it returned
    \* ---- a function wrapped by with_cache ----
    wc_ttl,               \* the ttl argument of the decorator
    wc_pc,                \* per caller: where its call of the wrapper stands
    wc_args,              \* per caller: the arguments of its call
    wc_ret,               \* per caller: what its call returned
    call_count,           \* history: arguments -> invocations of the wrapped function
    last_done,            \* history: arguments -> the last completed wrapper call
    \* ---- one call of ParallelExecutor.execute_parallel ----
    par_pc,               \* where the call stands
    max_concurrent,       \* its max_concurrent argument
    semaphore,            \* the value of the asyncio.Semaphore
    task_state,           \* per supplied task: "waiting", "running", "done"
    run_count,            \* history: per supplied task, how often it was started
    results,              \* what gather collected, and what the call returned
    \* ---- MetricsCollector and AlertManager ----
    metrics,              \* self.metrics: metric name -> recorded entries
    alert_rules,          \* self.alert_rules
    active_alerts,        \* self.active_alerts
    alert_history,        \* self.alert_history
    \* ---- one call of WebSocketAwareAgent.execute ----
    ws_pc,                \* where the call stands
    notifications,        \* history: what notify_status was called with
    current_progress,     \* self.current_progress
    process_outcome,      \* history: what process() ended in
    ws_ret,               \* what execute returned or raised
    \* ---- one call of WebSocketAwareAgent.request_user_input ----
    ui_pc,
    ui_timeout,
    ui_elapsed,
    ui_wrapped,
    poll_interval,
    ui_status,
    ui_ret,
    \* ---- CollaborativeWorkflow._phase_2_collaborative_generation ----
    cg_pc,
    cg_max,
    iteration,
    cg_rounds,
    cg_refinements,
    verification,
    cg_accepted,
    cg_ret,
    \* ---- CheckpointManager ----
    checkpoints,
    ckpt_ret,
    error_history,        \* ErrorRecoveryManager: workflow_id -> stages of the records
    \* ---- MetricsCollector (monitoring/metrics.py) ----
    ring,
    utcnow,
    health,
    \* ---- ResourceOptimizer.optimize_prompt_length ----
    opt_ret,
    \* ---- RetryConfig.get_delay called on its own ----
    delay_ret,
    \* ---- ResilientWorkflowEngine._execute_step_with_retry: the last wait and the last attempt's end ----
    loop_delay,
    loop_outcome,
    \* ---- TimeoutManager ----
    active_tasks,
    tm_pc,
    tm_task_id,
    tm_task_state,
    tm_ret,
    \* ---- ContextPreservation ----
    context_stack,
    list_heap,
    segment_calls,
    ctx_ret,
    \* ---- SystemMonitor activity registry ----
    active_agents,
    active_tenants,
    agent_performance,
    agent_tenants

repoVars == <<workflow_states, workflow_checkpoints, next_workflow_id,
              created_by, repo_ret>>

mgrVars == <<workflows, group_chats, task_pc, task_stage, progress_log,
             stage_log, task_exc, cancelled_at>>

memVars == <<user_memories, user_preferences, user_feedbacks, next_row_id, memory_cache,
             now, mem_ret>>

retryVars == <<retry_config, has_fallback, retry_pc, attempt, last_exception,
               pending_delay, func_calls, sleeps, fallback_calls, retry_ret>>

engVars == <<wf, ws_stored, stored_steps, checkpoint, active, exec_pc, exec_steps,
             exec_ret, loop_pc, loop_steps, loop_cur, loop_attempt, loop_exc,
             attempt_log>>

syncVars == <<active_workflows, sync_ret>>

cacheVars == <<cache, clock, cache_ret>>

wcVars == <<wc_ttl, wc_pc, wc_args, wc_ret, call_count, last_done>>

parVars == <<par_pc, max_concurrent, semaphore, task_state, run_count, results>>

perfVars == <<cacheVars, wcVars, parVars>>

monVars == <<metrics, alert_rules, active_alerts, alert_history>>

wsVars == <<ws_pc, notifications, current_progress, process_outcome, ws_ret>>

uiVars == <<ui_pc, ui_timeout, ui_elapsed, ui_wrapped, poll_interval, ui_status, ui_ret>>

cgVars == <<cg_pc, cg_max, iteration, cg_rounds, cg_refinements, verification, cg_accepted, cg_ret>>

ckptVars == <<checkpoints, ckpt_ret, error_history>>

mcVars == <<ring, utcnow, health>>

optVars == <<opt_ret>>

delayVars == <<delay_ret>>

engRetryVars == <<loop_delay, loop_outcome>>

tmVars == <<active_tasks, tm_pc, tm_task_id, tm_task_state, tm_ret>>

ctxVars == <<context_stack, list_heap, segment_calls, ctx_ret>>

activityVars == <<active_agents, active_tenants, agent_performance, agent_tenants>>

vars == <<repoVars, mgrVars, memVars, retryVars, engVars, syncVars, perfVars, monVars, wsVars, uiVars, cgVars, ckptVars, mcVars, optVars, delayVars, engRetryVars, tmVars, ctxVars, activityVars>>

\* What a component's actions leave alone: the other components' variables.
notRepo == <<mgrVars, memVars, retryVars, engVars, syncVars, perfVars, monVars, wsVars, uiVars, cgVars, ckptVars, mcVars, optVars, delayVars, engRetryVars, tmVars, ctxVars, activityVars>>
notMgr == <<repoVars, memVars, retryVars, engVars, syncVars, perfVars, monVars, wsVars, uiVars, cgVars, ckptVars, mcVars, optVars, delayVars, engRetryVars, tmVars, ctxVars, activityVars>>
notMem == <<repoVars, mgrVars, retryVars, engVars, syncVars, perfVars, monVars, wsVars, uiVars, cgVars, ckptVars, mcVars, optVars, delayVars, engRetryVars, tmVars, ctxVars, activityVars>>
notRetry == <<repoVars, mgrVars, memVars, engVars, syncVars, perfVars, monVars, wsVars, uiVars, cgVars, ckptVars, mcVars, optVars, delayVars, engRetryVars, tmVars, ctxVars, activityVars>>
notEng == <<repoVars, mgrVars, memVars, retryVars, syncVars, perfVars, monVars, wsVars, uiVars, cgVars, ckptVars, mcVars, optVars, delayVars, engRetryVars, tmVars, ctxVars, activityVars>>
notSync == <<repoVars, mgrVars, memVars, retryVars, engVars, perfVars, monVars, wsVars, uiVars, cgVars, ckptVars, mcVars, optVars, delayVars, engRetryVars, tmVars, ctxVars, activityVars>>
notPerf == <<repoVars, mgrVars, memVars, retryVars, engVars, syncVars, monVars, wsVars, uiVars, cgVars, ckptVars, mcVars, optVars, delayVars, engRetryVars, tmVars, ctxVars, activityVars>>
notMon == <<repoVars, mgrVars, memVars, retryVars, engVars, syncVars, perfVars, wsVars, uiVars, cgVars, ckptVars, mcVars, optVars, delayVars, engRetryVars, tmVars, ctxVars, activityVars>>
notWs == <<repoVars, mgrVars, memVars, retryVars, engVars, syncVars, perfVars, monVars, uiVars, cgVars, ckptVars, mcVars, optVars, delayVars, engRetryVars, tmVars, ctxVars, activityVars>>
notUi == <<repoVars, mgrVars, memVars, retryVars, engVars, syncVars, perfVars, monVars, wsVars, cgVars, ckptVars, mcVars, optVars, delayVars, engRetryVars, tmVars, ctxVars, activityVars>>
notCg == <<repoVars, mgrVars, memVars, retryVars, engVars, syncVars, perfVars, monVars, wsVars, uiVars, ckptVars, mcVars, optVars, delayVars, engRetryVars, tmVars, ctxVars, activityVars>>
notCkpt == <<repoVars, mgrVars, memVars, retryVars, engVars, syncVars, perfVars, monVars, wsVars, uiVars, cgVars, mcVars, optVars, delayVars, engRetryVars, tmVars, ctxVars, activityVars>>
notMc == <<repoVars, mgrVars, memVars, retryVars, engVars, syncVars, perfVars, monVars, wsVars, uiVars, cgVars, ckptVars, optVars, delayVars, engRetryVars, tmVars, ctxVars, activityVars>>
notOpt == <<repoVars, mgrVars, memVars, retryVars, engVars, syncVars, perfVars, monVars, wsVars, uiVars, cgVars, ckptVars, mcVars, delayVars, engRetryVars, tmVars, ctxVars, activityVars>>
notDelay == <<repoVars, mgrVars, memVars, retryVars, engVars, syncVars, perfVars, monVars, wsVars, uiVars, cgVars, ckptVars, mcVars, optVars, engRetryVars, tmVars, ctxVars, activityVars>>
notEngRetry == <<repoVars, mgrVars, memVars, retryVars, syncVars, perfVars, monVars, wsVars, uiVars, cgVars, ckptVars, mcVars, optVars, delayVars, tmVars, ctxVars, activityVars>>
notTm == <<repoVars, mgrVars, memVars, retryVars, engVars, syncVars, perfVars, monVars, wsVars, uiVars, cgVars, ckptVars, mcVars, optVars, delayVars, engRetryVars, ctxVars, activityVars>>
notCtx == <<repoVars, mgrVars, memVars, retryVars, engVars, syncVars, perfVars, monVars, wsVars, uiVars, cgVars, ckptVars, mcVars, optVars, delayVars, engRetryVars, tmVars, activityVars>>
notActivity == <<repoVars, mgrVars, memVars, retryVars, engVars, syncVars, perfVars, monVars, wsVars, uiVars, cgVars, ckptVars, mcVars, optVars, delayVars, engRetryVars, tmVars, ctxVars>>

(***************************************************************************)
(* WorkflowStateRepository                                                 *)
(***************************************************************************)
ValidStatuses == {"running", "paused", "completed", "failed", "cancelled"}
TerminalStatuses == {"completed", "failed", "cancelled"}
StepNames == {"init", "analysis"}
WorkflowIds == 1..MaxWorkflows

\* A mutant of get_workflow: the tenant_id filter is dropped.
get_workflow_any_tenant(tenant_id, workflow_id) ==
    LET found == {r \in workflow_states : r.workflow_id = workflow_id}
    IN  IF found = {} THEN {} ELSE {CHOOSE r \in found : TRUE}

\* A row holds the columns the repository reads or writes after the insert;
\* user_id, workflow_type, timeout_at and the JSON payloads (state_data,
\* workflow_metadata) are written and never read by these operations.
\* An Optional[row] is a set holding no row or one row.
\* query(WorkflowState).filter(workflow_id == .. AND tenant_id == ..).first()
get_workflow(tenant_id, workflow_id) ==
    LET found == {r \in workflow_states :
                     /\ r.workflow_id = workflow_id
                     /\ r.tenant_id = tenant_id}
    IN  IF found = {} THEN {} ELSE {CHOOSE r \in found : TRUE}

RepoInit ==
    /\ workflow_states = {}
    /\ workflow_checkpoints = [w \in {} |-> 0]
    /\ next_workflow_id = 1
    /\ created_by = [w \in {} |-> "tenantA"]
    /\ repo_ret = [op |-> "none", tenant |-> "tenantA", workflow_id |-> 0, result |-> {}]

create_workflow(tenant_id, initial_step) ==
    /\ next_workflow_id <= MaxWorkflows
    /\ LET row == [workflow_id |-> next_workflow_id,
                   tenant_id |-> tenant_id,
                   current_step |-> initial_step,
                   status |-> "running",
                   error_info |-> None,
                   completed_at |-> FALSE]
       IN  /\ workflow_states' = workflow_states \cup {row}
           /\ repo_ret' = [op |-> "create_workflow", tenant |-> tenant_id,
                           workflow_id |-> next_workflow_id, result |-> {row}]
    /\ workflow_checkpoints' =
          [w \in DOMAIN workflow_checkpoints \cup {next_workflow_id} |->
              IF w = next_workflow_id THEN 0 ELSE workflow_checkpoints[w]]
    /\ created_by' = [w \in DOMAIN created_by \cup {next_workflow_id} |->
                         IF w = next_workflow_id THEN tenant_id ELSE created_by[w]]
    /\ next_workflow_id' = next_workflow_id + 1
    /\ UNCHANGED notRepo

get_workflow_call(tenant_id, workflow_id) ==
    /\ repo_ret' = [op |-> "get_workflow", tenant |-> tenant_id,
                    workflow_id |-> workflow_id,
                    result |-> get_workflow(tenant_id, workflow_id)]
    /\ UNCHANGED <<workflow_states, workflow_checkpoints, next_workflow_id, created_by,
                 notRepo>>

\* status = None stands for the omitted optional argument.
update_workflow_step(tenant_id, workflow_id, new_step, status) ==
    LET found == get_workflow(tenant_id, workflow_id)
        workflow == CHOOSE r \in found : TRUE
        updated == [workflow EXCEPT
                       !.current_step = new_step,
                       !.status = IF status # None THEN status ELSE @,
                       !.completed_at = IF status \in TerminalStatuses THEN TRUE ELSE @]
    IN  /\ IF found = {}
           THEN /\ repo_ret' = [op |-> "update_workflow_step", tenant |-> tenant_id,
                                workflow_id |-> workflow_id, result |-> {}]
                /\ UNCHANGED workflow_states
           ELSE /\ workflow_states' = (workflow_states \ {workflow}) \cup {updated}
                /\ repo_ret' = [op |-> "update_workflow_step", tenant |-> tenant_id,
                                workflow_id |-> workflow_id, result |-> {updated}]
        /\ UNCHANGED <<workflow_checkpoints, next_workflow_id, created_by, notRepo>>

create_checkpoint(tenant_id, workflow_id) ==
    LET found == get_workflow(tenant_id, workflow_id)
    IN  /\ IF found = {}
           THEN /\ repo_ret' = [op |-> "create_checkpoint", tenant |-> tenant_id,
                                workflow_id |-> workflow_id, result |-> {}]
                /\ UNCHANGED workflow_checkpoints
           ELSE /\ workflow_checkpoints[workflow_id] < MaxCheckpoints
                /\ workflow_checkpoints' =
                      [workflow_checkpoints EXCEPT ![workflow_id] = @ + 1]
                /\ repo_ret' = [op |-> "create_checkpoint", tenant |-> tenant_id,
                                workflow_id |-> workflow_id, result |-> {[step_name |-> "checkpoint"]}]
        /\ UNCHANGED <<workflow_states, next_workflow_id, created_by, notRepo>>

mark_workflow_failed(tenant_id, workflow_id, error_info) ==
    LET found == get_workflow(tenant_id, workflow_id)
        workflow == CHOOSE r \in found : TRUE
        updated == [workflow EXCEPT
                       !.status = "failed",
                       !.error_info = error_info,
                       !.completed_at = TRUE]
    IN  /\ IF found = {}
           THEN /\ repo_ret' = [op |-> "mark_workflow_failed", tenant |-> tenant_id,
                                workflow_id |-> workflow_id, result |-> {}]
                /\ UNCHANGED workflow_states
           ELSE /\ workflow_states' = (workflow_states \ {workflow}) \cup {updated}
                /\ repo_ret' = [op |-> "mark_workflow_failed", tenant |-> tenant_id,
                                workflow_id |-> workflow_id, result |-> {updated}]
        /\ UNCHANGED <<workflow_checkpoints, next_workflow_id, created_by, notRepo>>

RepoNext ==
    \/ \E t \in Tenants, s \in StepNames : create_workflow(t, s)
    \/ \E t \in Tenants, w \in WorkflowIds : get_workflow_call(t, w)
    \/ \E t \in Tenants, w \in WorkflowIds, s \in StepNames,
          st \in ValidStatuses \cup {None} : update_workflow_step(t, w, s, st)
    \/ \E t \in Tenants, w \in WorkflowIds : create_checkpoint(t, w)
    \/ \E t \in Tenants, w \in WorkflowIds : mark_workflow_failed(t, w, "err")


(***************************************************************************)
(* AgentWorkflowManager: the production four-stage pipeline.               *)
(* Progress is held in percent (0.25 is 25).  A background task runs from  *)
(* one await to the next without interruption (one asyncio event loop).    *)
(***************************************************************************)
RunIds == 1..MaxRuns
NumStages == 4
StageSteps == <<"tender_analysis", "knowledge_retrieval",
                "content_generation", "compliance_verification">>
StageProgress == <<25, 50, 75, 90>>
\* What awaiting a stage agent's run() can end in: its result, or an exception
\* of the named class carrying a message.
AgentOutcomes == {[kind |-> "ok", msg |-> None],
                  [kind |-> "ValueError", msg |-> "bad value"],
                  [kind |-> "RuntimeError", msg |-> "LLM unavailable"]}

NoException == [kind |-> "none", msg |-> None]

MgrInit ==
    /\ workflows = [w \in {} |-> 0]
    /\ group_chats = {}
    /\ task_pc = [w \in RunIds |-> "none"]
    /\ task_stage = [w \in RunIds |-> 0]
    /\ progress_log = [w \in RunIds |-> <<>>]
    /\ stage_log = [w \in RunIds |-> <<>>]
    /\ cancelled_at = [w \in RunIds |-> {}]
    /\ task_exc = [w \in RunIds |-> NoException]

\* A mutant of _update_workflow_status: the progress field is not written.
update_workflow_status_keeps_progress(w, status, current_step, progress, result, error) ==
    IF w \in DOMAIN workflows
    THEN [workflows EXCEPT ![w] = [status |-> status, current_step |-> current_step,
                                   progress |-> @.progress, result |-> result,
                                   error |-> error]]
    ELSE workflows

\* _update_workflow_status: the record after the update (last_updated left out).
update_workflow_status(w, status, current_step, progress, result, error) ==
    IF w \in DOMAIN workflows
    THEN [workflows EXCEPT ![w] = [status |-> status, current_step |-> current_step,
                                   progress |-> progress, result |-> result,
                                   error |-> error]]
    ELSE workflows

get_workflow_status(w) ==
    IF w \in DOMAIN workflows THEN {workflows[w]} ELSE {}

\* The progress history follows the record's progress field.
LogProgress(w) ==
    progress_log' = [progress_log EXCEPT ![w] =
                        IF w \in DOMAIN workflows'
                        THEN Append(@, workflows'[w].progress) ELSE @]

\* start_workflow: the record is stored and the pipeline task is created; the
\* task first runs at a later turn of the event loop.  Callers pass a fresh id.
start_workflow(w) ==
    /\ w \notin DOMAIN workflows
    /\ workflows' = [x \in DOMAIN workflows \cup {w} |->
                        IF x = w
                        THEN [status |-> "running", current_step |-> "initializing",
                              progress |-> 0, result |-> None, error |-> None]
                        ELSE workflows[x]]
    /\ group_chats' = group_chats \cup {w}
    /\ task_pc' = [task_pc EXCEPT ![w] = "created"]
    /\ progress_log' = [progress_log EXCEPT ![w] = <<0>>]
    /\ UNCHANGED <<task_stage, stage_log, task_exc, cancelled_at, notMgr>>

\* The except clause of _execute_workflow: only ValueError is handled.
HandledByExecuteWorkflow(kind) == kind = "ValueError"

\* How the task ends when exception exc is raised inside the try block: a
\* handled exception is recorded in the workflow record and the task returns
\* ("done"); any other leaves the task through the exception ("raised").
execute_workflow_raise(w, exc) ==
    /\ task_exc' = [task_exc EXCEPT ![w] = exc]
    /\ IF HandledByExecuteWorkflow(exc.kind)
       THEN /\ workflows' = update_workflow_status(w, "failed", "error", 0, None, exc.msg)
            /\ LogProgress(w)
            /\ task_pc' = [task_pc EXCEPT ![w] = "done"]
       ELSE /\ task_pc' = [task_pc EXCEPT ![w] = "raised"]
            /\ UNCHANGED <<workflows, progress_log>>

\* _execute_workflow from its start to the first await (stage 1's agent).
execute_workflow_begin(w) ==
    /\ task_pc[w] = "created"
    /\ IF w \notin group_chats
       THEN /\ execute_workflow_raise(w, [kind |-> "ValueError",
                                          msg |-> "group chat not found"])
            /\ UNCHANGED <<task_stage, stage_log>>
       ELSE /\ workflows' = update_workflow_status(w, "running", StageSteps[1],
                                                   StageProgress[1], None, None)
            /\ LogProgress(w)
            /\ task_pc' = [task_pc EXCEPT ![w] = "await"]
            /\ task_stage' = [task_stage EXCEPT ![w] = 1]
            /\ stage_log' = [stage_log EXCEPT ![w] = Append(@, <<"start", 1>>)]
            /\ UNCHANGED task_exc
    /\ UNCHANGED <<group_chats, cancelled_at, notMgr>>

\* _execute_workflow from the return of stage k's agent to the next await or
\* to the end of the task.
execute_workflow_resume(w, outcome) ==
    LET k == task_stage[w] IN
    /\ task_pc[w] = "await"
    /\ IF outcome.kind # "ok"
       THEN /\ execute_workflow_raise(w, outcome)
            /\ stage_log' = [stage_log EXCEPT ![w] = Append(@, <<"raise", k>>)]
            /\ UNCHANGED task_stage
       ELSE IF k < NumStages
       THEN /\ workflows' = update_workflow_status(w, "running", StageSteps[k + 1],
                                                   StageProgress[k + 1], None, None)
            /\ LogProgress(w)
            /\ task_stage' = [task_stage EXCEPT ![w] = k + 1]
            /\ stage_log' = [stage_log EXCEPT ![w] =
                                @ \o <<(<<"return", k>>), (<<"start", k + 1>>)>>]
            /\ UNCHANGED <<task_pc, task_exc>>
       ELSE /\ workflows' = update_workflow_status(w, "completed", "finished", 100,
                                                   "stage_outputs", None)
            /\ LogProgress(w)
            /\ task_pc' = [task_pc EXCEPT ![w] = "done"]
            /\ stage_log' = [stage_log EXCEPT ![w] = Append(@, <<"return", k>>)]
            /\ UNCHANGED <<task_stage, task_exc>>
    /\ UNCHANGED <<group_chats, cancelled_at, notMgr>>

\* A mutant of cancel_workflow: the pipeline task is cancelled as well.
cancel_workflow_cancels_task(w) ==
    /\ w \in DOMAIN workflows
    /\ workflows' = [workflows EXCEPT ![w].status = "cancelled"]
    /\ task_pc' = [task_pc EXCEPT ![w] = "cancelled"]
    /\ cancelled_at' = [cancelled_at EXCEPT ![w] =
                           IF @ = {} THEN {task_stage[w]} ELSE @]
    /\ UNCHANGED <<group_chats, task_stage, progress_log, stage_log, task_exc, notMgr>>

\* cancel_workflow: only the status field (and last_updated) is written.
cancel_workflow(w) ==
    /\ w \in DOMAIN workflows
    /\ workflows' = [workflows EXCEPT ![w].status = "cancelled"]
    /\ cancelled_at' = [cancelled_at EXCEPT ![w] =
                           IF @ = {} THEN {task_stage[w]} ELSE @]
    /\ UNCHANGED <<group_chats, task_pc, task_stage, progress_log, stage_log, task_exc,
                   notMgr>>

MgrNext ==
    \/ \E w \in RunIds : start_workflow(w)
    \/ \E w \in RunIds : execute_workflow_begin(w)
    \/ \E w \in RunIds, o \in AgentOutcomes : execute_workflow_resume(w, o)
    \/ \E w \in RunIds : cancel_workflow(w)

(***************************************************************************)
(* TenantMemoryService: user preferences behind a 15-minute read cache.    *)
(* A context is a tenant and a user.  A cache key is the sequence of the   *)
(* parts its f-string joins with ":".  A preferences dictionary maps       *)
(* <<category, key>> to the entry stored for it.  Database errors (the     *)
(* except branches) are left out.                                          *)
(***************************************************************************)
CacheTtlMinutes == 15
\* confidence_score is held in tenths: 10 is 1.0.
DefaultConfidence == 10
Users == {"u1"}
Categories == {"writing_style"}
PreferenceKeys == {"tone"}
PreferenceValues == {"formal", "casual"}

MemInit ==
    /\ user_memories = {}
    /\ user_preferences = {}
    /\ user_feedbacks = {}
    /\ next_row_id = 1
    /\ memory_cache = [k \in {} |-> 0]
    /\ now = 0
    /\ mem_ret = [op |-> "none"]

\* _get_cache_key: f"{tenant_id}:{user_id}:{key}"
get_cache_key(tenant_id, user_id, key) == <<tenant_id, user_id>> \o key

\* _is_cache_valid
is_cache_valid(entry) == now - entry.timestamp < CacheTtlMinutes

\* The key get_user_preferences caches under.
preferences_cache_key(tenant_id, user_id, category, scope, scope_id) ==
    get_cache_key(tenant_id, user_id,
                  <<"preferences",
                    IF category = None THEN "all" ELSE category,
                    IF scope = None THEN "all" ELSE scope,
                    IF scope_id = None THEN "all" ELSE scope_id>>)

\* The key store_user_preference deletes: f"preferences:{category}".
store_invalidation_key(tenant_id, user_id, category) ==
    get_cache_key(tenant_id, user_id, <<"preferences", category>>)

\* The UserMemory row store_memory adds (memories are stored without
\* expires_in_days; memory_data is held as one opaque value).
new_memory(id, tenant_id, user_id, memory_type, memory_key, memory_data, confidence_score) ==
    [id |-> id, tenant_id |-> tenant_id, user_id |-> user_id,
     memory_type |-> memory_type, memory_key |-> memory_key,
     memory_data |-> memory_data, confidence_score |-> confidence_score]

\* A mutant of get_memory: the tenant filter is missing.
get_memory_any_tenant(tenant_id, user_id, memory_key, memory_type) ==
    LET found == {m \in user_memories :
                     /\ m.user_id = user_id
                     /\ m.memory_key = memory_key
                     /\ (memory_type # None => m.memory_type = memory_type)}
    IN  IF found = {} THEN {} ELSE {CHOOSE m \in found : TRUE}

\* MemoryManager.get_memory (query.first() of the rows that match).
get_memory(tenant_id, user_id, memory_key, memory_type) ==
    LET found == {m \in user_memories :
                     /\ m.tenant_id = tenant_id
                     /\ m.user_id = user_id
                     /\ m.memory_key = memory_key
                     /\ (memory_type # None => m.memory_type = memory_type)}
    IN  IF found = {} THEN {} ELSE {CHOOSE m \in found : TRUE}

\* MemoryManager.get_preferences
get_preferences(tenant_id, user_id, category, scope, scope_identifier) ==
    {r \in user_preferences :
        /\ r.tenant_id = tenant_id
        /\ r.user_id = user_id
        /\ (category # None => r.preference_category = category)
        /\ (scope # None => r.scope = scope)
        /\ (scope_identifier # None => r.scope_identifier = scope_identifier)}

\* The dictionary get_user_preferences builds from the rows.
prefs_dict(rows) ==
    [ck \in {<<r.preference_category, r.preference_key>> : r \in rows} |->
        LET r == CHOOSE r \in rows :
                    <<r.preference_category, r.preference_key>> = ck
        IN  [value |-> r.preference_value, scope |-> r.scope,
             scope_id |-> r.scope_identifier]]

\* f"preference_{category}_{scope}_{scope_identifier or 'global'}"
preference_memory_key(category, scope, scope_id) ==
    <<"preference", category, scope, IF scope_id = None THEN "global" ELSE scope_id>>

\* A mutant of existing_pref: the lookup finds nothing.
existing_pref_not_found(memory_id, preference_key) == {}

\* store_preference's query for the row of (memory_id, preference_key).
existing_pref(memory_id, preference_key) ==
    {r \in user_preferences :
        r.memory_id = memory_id /\ r.preference_key = preference_key}

\* The UserPreference row store_preference returns: the existing row with
\* the new value, or a new row.
returned_preference(tenant_id, user_id, category, key, value, scope, scope_id) ==
    LET found == get_memory(tenant_id, user_id,
                            preference_memory_key(category, scope, scope_id),
                            "preference")
        memory_id == IF found = {} THEN next_row_id
                     ELSE (CHOOSE m \in found : TRUE).id
        existing == existing_pref(memory_id, key)
    IN  IF existing # {}
        THEN [(CHOOSE r \in existing : TRUE) EXCEPT !.preference_value = value]
        ELSE [id |-> IF found = {} THEN next_row_id + 1 ELSE next_row_id,
              memory_id |-> memory_id,
              tenant_id |-> tenant_id, user_id |-> user_id,
              preference_category |-> category, preference_key |-> key,
              preference_value |-> value, scope |-> scope,
              scope_identifier |-> scope_id]

\* MemoryManager.store_preference followed by the commit: the rows afterwards.
store_preference(tenant_id, user_id, category, key, value, scope, scope_id) ==
    LET memory_key == preference_memory_key(category, scope, scope_id)
        found == get_memory(tenant_id, user_id, memory_key, "preference")
        preference == returned_preference(tenant_id, user_id, category, key, value,
                                          scope, scope_id)
        existing == existing_pref(preference.memory_id, key)
    IN  /\ user_memories' =
              IF found = {}
              THEN user_memories \cup
                      {new_memory(preference.memory_id, tenant_id, user_id,
                                  "preference", memory_key, "preferences",
                                  DefaultConfidence)}
              ELSE user_memories
        /\ user_preferences' =
              (user_preferences \ {r \in existing : r.id = preference.id})
                  \cup {preference}
        /\ next_row_id' = next_row_id + (IF found = {} THEN 1 ELSE 0)
                                      + (IF existing = {} THEN 1 ELSE 0)

Without(f, k) == [x \in DOMAIN f \ {k} |-> f[x]]

With(f, k, v) == [x \in DOMAIN f \cup {k} |-> IF x = k THEN v ELSE f[x]]

store_user_preference(tenant_id, user_id, category, key, value) ==
    /\ store_preference(tenant_id, user_id, category, key, value, "global", None)
    /\ memory_cache' = Without(memory_cache,
                               store_invalidation_key(tenant_id, user_id, category))
    /\ mem_ret' = [op |-> "store_user_preference", tenant_id |-> tenant_id,
                   user_id |-> user_id, result |-> TRUE]
    /\ UNCHANGED <<user_feedbacks, now, notMem>>

get_user_preferences(tenant_id, user_id, category, scope, scope_id) ==
    LET cache_key == preferences_cache_key(tenant_id, user_id, category, scope, scope_id)
        hit == cache_key \in DOMAIN memory_cache /\ is_cache_valid(memory_cache[cache_key])
        fresh == prefs_dict(get_preferences(tenant_id, user_id, category, scope, scope_id))
        returned == IF hit THEN memory_cache[cache_key].data ELSE fresh
    IN  /\ memory_cache' =
              IF hit THEN memory_cache
              ELSE With(memory_cache, cache_key, [data |-> fresh, timestamp |-> now])
        /\ mem_ret' = [op |-> "get_user_preferences", tenant_id |-> tenant_id,
                       user_id |-> user_id, category |-> category, scope |-> scope,
                       scope_id |-> scope_id, from_cache |-> hit, result |-> returned]
        /\ UNCHANGED <<user_memories, user_preferences, user_feedbacks, next_row_id, now,
                       notMem>>

\* Time passes.
Tick ==
    /\ now + TickMinutes <= MaxMinutes
    /\ now' = now + TickMinutes
    /\ UNCHANGED <<user_memories, user_preferences, user_feedbacks, next_row_id,
                   memory_cache, mem_ret, notMem>>

MemoryTypes == {"interaction"}
MemoryKeys == {<<"isolated", "memory">>}
\* The values the contexts of a tenant store where tenants are told apart.
OwnValues(tenant_id) ==
    IF tenant_id = "tenantA" THEN {"formal", "casual"} ELSE {"concise"}

\* MemoryManager.store_memory followed by the commit.
store_memory(tenant_id, user_id, memory_type, memory_key, memory_data, confidence_score) ==
    /\ Cardinality(user_memories) < MaxMemories
    /\ user_memories' = user_memories \cup
                            {new_memory(next_row_id, tenant_id, user_id, memory_type,
                                        memory_key, memory_data, confidence_score)}
    /\ next_row_id' = next_row_id + 1
    /\ mem_ret' = [op |-> "store_memory", tenant_id |-> tenant_id, user_id |-> user_id]
    /\ UNCHANGED <<user_preferences, user_feedbacks, memory_cache, now, notMem>>

\* A call of MemoryManager.get_memory.
get_memory_call(tenant_id, user_id, memory_key, memory_type) ==
    /\ mem_ret' = [op |-> "get_memory", tenant_id |-> tenant_id, user_id |-> user_id,
                   result |-> get_memory(tenant_id, user_id, memory_key, memory_type)]
    /\ UNCHANGED <<user_memories, user_preferences, user_feedbacks, next_row_id,
                   memory_cache, now, notMem>>

\* ---- feedback ----
\* Feedback is recorded the way the service test does: no original or
\* modified content and a reason that names no style, so learn_from_feedback
\* learns no preference.
FeedbackValues == {"approval", "negative", "4", "3", "2"}
ContentTypes == {"proposal_text"}
FeedbackTenants == {"tenantA"}
AgentNames == {"proposal_generator"}
DaysBackArgs == {30}
MinutesPerDay == 1440
\* confidence_score arguments of store_memory, in tenths.
ConfidenceArgs == {0, 1, DefaultConfidence}

\* str.isdigit() and int() on the feedback values in use.
isdigit(value) == value \in {"0", "1", "2", "3", "4", "5"}

int(value) ==
    CASE value = "0" -> 0 [] value = "1" -> 1 [] value = "2" -> 2
      [] value = "3" -> 3 [] value = "4" -> 4 [] value = "5" -> 5

\* UserFeedback.is_positive (the values in use are lower case)
is_positive(value) ==
    \/ value \in {"positive", "approval", "accepted"}
    \/ (isdigit(value) /\ int(value) >= 4)

\* UserFeedback.is_negative
is_negative(value) ==
    \/ value \in {"negative", "rejection", "rejected"}
    \/ (isdigit(value) /\ int(value) <= 2)

Max(a, b) == IF a >= b THEN a ELSE b

\* A mutant of nudged_confidence: the score is not clamped.
nudged_confidence_unclamped(score, value) ==
    IF is_positive(value) THEN score + 1
    ELSE IF is_negative(value) THEN score - 1
    ELSE score

\* store_feedback's update of memory.confidence_score, in tenths.
nudged_confidence(score, value) ==
    IF is_positive(value) THEN IF score + 1 <= 10 THEN score + 1 ELSE 10
    ELSE IF is_negative(value) THEN Max(0, score - 1)
    ELSE score

\* f"feedback_{content_type}_{agent_name or 'unknown'}"
feedback_memory_key(content_type, agent_name) ==
    <<"feedback", content_type, IF agent_name = None THEN "unknown" ELSE agent_name>>

\* MemoryManager.store_feedback followed by the commit: the rows afterwards.
store_feedback(tenant_id, user_id, feedback_value, content_type, agent_name) ==
    LET memory_key == feedback_memory_key(content_type, agent_name)
        found == get_memory(tenant_id, user_id, memory_key, "feedback")
        memory == IF found = {}
                  THEN new_memory(next_row_id, tenant_id, user_id, "feedback",
                                  memory_key, "feedback_history", DefaultConfidence)
                  ELSE CHOOSE m \in found : TRUE
        feedback_id == IF found = {} THEN next_row_id + 1 ELSE next_row_id
    IN  /\ user_feedbacks' = user_feedbacks \cup
              {[id |-> feedback_id, memory_id |-> memory.id,
                tenant_id |-> tenant_id, user_id |-> user_id,
                feedback_value |-> feedback_value, content_type |-> content_type,
                agent_name |-> agent_name, created_at |-> now]}
        /\ user_memories' = (user_memories \ found) \cup
              {[memory EXCEPT !.confidence_score =
                                  nudged_confidence(@, feedback_value)]}
        /\ next_row_id' = feedback_id + 1

\* _invalidate_preference_cache: keys that start with
\* f"{tenant_id}:{user_id}:preferences:".
invalidate_preference_cache(tenant_id, user_id) ==
    [k \in {x \in DOMAIN memory_cache :
               ~(x[1] = tenant_id /\ x[2] = user_id /\ x[3] = "preferences")} |->
        memory_cache[k]]

\* TenantMemoryService.record_user_feedback
record_user_feedback(tenant_id, user_id, feedback_value, content_type, agent_name) ==
    /\ Cardinality(user_feedbacks) < MaxFeedbacks
    /\ store_feedback(tenant_id, user_id, feedback_value, content_type, agent_name)
    /\ memory_cache' = invalidate_preference_cache(tenant_id, user_id)
    /\ mem_ret' = [op |-> "record_user_feedback", tenant_id |-> tenant_id,
                   user_id |-> user_id, result |-> TRUE]
    /\ UNCHANGED <<user_preferences, now, notMem>>

\* MemoryManager.get_rejection_history
get_rejection_history(tenant_id, user_id, content_type, agent_name, days_back) ==
    {f \in user_feedbacks :
        /\ f.tenant_id = tenant_id
        /\ f.user_id = user_id
        /\ f.created_at >= now - days_back * MinutesPerDay
        /\ (content_type # None => f.content_type = content_type)
        /\ (agent_name # None => f.agent_name = agent_name)
        /\ is_negative(f.feedback_value)}

\* str(days_back) in the cache key.
days_back_str(days_back) == IF days_back = 30 THEN "30" ELSE "other"

\* The key get_rejection_patterns caches under.
rejections_cache_key(tenant_id, user_id, content_type, agent_name, days_back) ==
    get_cache_key(tenant_id, user_id,
                  <<"rejections",
                    IF content_type = None THEN "all" ELSE content_type,
                    IF agent_name = None THEN "all" ELSE agent_name,
                    days_back_str(days_back)>>)

\* TenantMemoryService.get_rejection_patterns (one pattern per feedback row)
get_rejection_patterns(tenant_id, user_id, content_type, agent_name, days_back) ==
    LET cache_key == rejections_cache_key(tenant_id, user_id, content_type,
                                          agent_name, days_back)
        hit == cache_key \in DOMAIN memory_cache /\ is_cache_valid(memory_cache[cache_key])
        patterns == get_rejection_history(tenant_id, user_id, content_type,
                                          agent_name, days_back)
        returned == IF hit THEN memory_cache[cache_key].data ELSE patterns
    IN  /\ memory_cache' =
              IF hit THEN memory_cache
              ELSE With(memory_cache, cache_key, [data |-> patterns, timestamp |-> now])
        /\ mem_ret' = [op |-> "get_rejection_patterns", tenant_id |-> tenant_id,
                       user_id |-> user_id, content_type |-> content_type,
                       agent_name |-> agent_name, days_back |-> days_back,
                       from_cache |-> hit, result |-> returned]
        /\ UNCHANGED <<user_memories, user_preferences, user_feedbacks, next_row_id, now,
                       notMem>>

\* Feedback of one user, read back as in the service test (filtered by
\* content type or not at all).
FeedbackNext ==
    \/ \E t \in FeedbackTenants, u \in Users, v \in FeedbackValues,
          ct \in ContentTypes, a \in AgentNames : record_user_feedback(t, u, v, ct, a)
    \/ \E t \in FeedbackTenants, u \in Users, ct \in ContentTypes \cup {None},
          d \in DaysBackArgs : get_rejection_patterns(t, u, ct, None, d)
    \/ Tick

\* Feedback for a memory that may have been stored beforehand with a low
\* confidence.
ConfidenceNext ==
    \/ \E t \in FeedbackTenants, u \in Users, ct \in ContentTypes, a \in AgentNames,
          c \in ConfidenceArgs :
          store_memory(t, u, "feedback", feedback_memory_key(ct, a),
                       "feedback_history", c)
    \/ \E t \in FeedbackTenants, u \in Users, v \in FeedbackValues,
          ct \in ContentTypes, a \in AgentNames : record_user_feedback(t, u, v, ct, a)

\* ---- MemoryManager preferences, without the service's cache ----
\* A scope and its identifier: global preferences have none.
PreferenceScopes == {<<"global", None>>, <<"agent_specific", "proposal_generator">>}

\* A call of MemoryManager.store_preference, committed.
store_preference_call(tenant_id, user_id, category, key, value, scope, scope_id) ==
    /\ next_row_id <= MaxRowId
    /\ store_preference(tenant_id, user_id, category, key, value, scope, scope_id)
    /\ mem_ret' = [op |-> "store_preference", tenant_id |-> tenant_id,
                   user_id |-> user_id, category |-> category, key |-> key,
                   value |-> value, scope |-> scope, scope_id |-> scope_id,
                   result |-> returned_preference(tenant_id, user_id, category, key,
                                                  value, scope, scope_id)]
    /\ UNCHANGED <<user_feedbacks, memory_cache, now, notMem>>

\* A call of MemoryManager.get_preferences.
get_preferences_call(tenant_id, user_id, category, scope, scope_id) ==
    /\ mem_ret' = [op |-> "get_preferences", tenant_id |-> tenant_id,
                   user_id |-> user_id, category |-> category, scope |-> scope,
                   scope_id |-> scope_id,
                   result |-> get_preferences(tenant_id, user_id, category, scope,
                                              scope_id)]
    /\ UNCHANGED <<user_memories, user_preferences, user_feedbacks, next_row_id,
                   memory_cache, now, notMem>>

PreferenceNext ==
    \/ \E t \in Tenants, u \in Users, c \in Categories, k \in PreferenceKeys,
          v \in PreferenceValues, s \in PreferenceScopes :
          store_preference_call(t, u, c, k, v, s[1], s[2])
    \/ \E t \in Tenants, u \in Users, c \in Categories \cup {None},
          s \in PreferenceScopes \cup {<<None, None>>} :
          get_preferences_call(t, u, c, s[1], s[2])

MemNext ==
    \/ \E t \in Tenants, u \in Users, c \in Categories, k \in PreferenceKeys,
          v \in PreferenceValues : store_user_preference(t, u, c, k, v)
    \/ \E t \in Tenants, u \in Users, c \in Categories \cup {None} :
          get_user_preferences(t, u, c, None, None)
    \/ Tick

\* Stores and reads of two tenants whose users have the same id and use the
\* same keys.
IsolationNext ==
    \/ \E t \in Tenants, u \in Users, mt \in MemoryTypes, mk \in MemoryKeys :
          \E d \in OwnValues(t) : store_memory(t, u, mt, mk, d, DefaultConfidence)
    \/ \E t \in Tenants, u \in Users, mk \in MemoryKeys, mt \in MemoryTypes \cup {None} :
          get_memory_call(t, u, mk, mt)
    \/ \E t \in Tenants, u \in Users, c \in Categories, k \in PreferenceKeys :
          \E v \in OwnValues(t) : store_user_preference(t, u, c, k, v)
    \/ \E t \in Tenants, u \in Users, c \in Categories \cup {None} :
          get_user_preferences(t, u, c, None, None)

(***************************************************************************)
(* with_retry: one call of the wrapper around an async function.           *)
(* Delays are in milliseconds.  random.random() is sampled in thousandths. *)
(* The wrapped function and the fallback end in a result or in an          *)
(* exception derived from Exception; the function may also end in one that *)
(* is not (asyncio.CancelledError), which no except clause here catches.   *)
(***************************************************************************)
DefaultInitialDelay == 1000
DefaultMaxDelay == 60000
ExponentialBase == 2
RandomSamples == {0, 500, 998}
NoValue == [kind |-> "none", of |-> "none", n |-> 0]

RECURSIVE Pow(_, _)
Pow(b, e) == IF e = 0 THEN 1 ELSE b * Pow(b, e - 1)

Min(a, b) == IF a <= b THEN a ELSE b

\* A mutant of get_delay: the exponent is one too large.
get_delay_next_attempt(config, k, random) ==
    LET delay == Min(config.initial_delay * Pow(ExponentialBase, k + 1), config.max_delay)
    IN  IF config.jitter THEN (delay * (1000 + random)) \div 2000 ELSE delay

\* RetryConfig.get_delay: delay * (0.5 + random * 0.5) under jitter.
get_delay(config, k, random) ==
    LET delay == Min(config.initial_delay * Pow(ExponentialBase, k), config.max_delay)
    IN  IF config.jitter THEN (delay * (1000 + random)) \div 2000 ELSE delay

\* A mutant of retry_attempts: the loop runs once more.
retry_attempts_one_more == retry_config.max_retries + 2

\* range(retry_config.max_retries + 1)
retry_attempts == retry_config.max_retries + 1

RetryConfigs == [max_retries : 0..MaxRetriesInput,
                 initial_delay : {DefaultInitialDelay},
                 max_delay : {2 * DefaultInitialDelay, DefaultMaxDelay},
                 jitter : BOOLEAN]

\* No wrapper call has been made.
RetryInit ==
    /\ retry_config = [max_retries |-> 0, initial_delay |-> DefaultInitialDelay,
                       max_delay |-> DefaultMaxDelay, jitter |-> FALSE]
    /\ has_fallback = FALSE
    /\ retry_pc = "idle"
    /\ attempt = 0
    /\ last_exception = NoValue
    /\ pending_delay = 0
    /\ func_calls = <<>>
    /\ sleeps = <<>>
    /\ fallback_calls = <<>>
    /\ retry_ret = [how |-> "running", value |-> NoValue]

\* The wrapper is called: last_exception = None and the loop starts.
with_retry_enter(config, fallback) ==
    /\ retry_pc = "idle"
    /\ retry_config' = config
    /\ has_fallback' = fallback
    /\ retry_pc' = "call"
    /\ attempt' = 0
    /\ last_exception' = NoValue
    /\ UNCHANGED <<pending_delay, func_calls, sleeps, fallback_calls, retry_ret, notRetry>>

\* A mutant of after_retry_loop: the fallback's exception is not caught.
after_retry_loop_fallback_raises(fallback_outcome, last_exc) ==
    IF has_fallback /\ fallback_outcome = "ok"
    THEN [how |-> "return", value |-> [kind |-> "result", of |-> "fallback", n |-> 0]]
    ELSE IF has_fallback
    THEN [how |-> "raise", value |-> [kind |-> fallback_outcome, of |-> "fallback", n |-> 0]]
    ELSE [how |-> "raise", value |-> last_exc]

\* The code after the loop, given how the fallback (if any) ended: the
\* fallback's result; or, its Exception having been caught and logged,
\* last_exception raised.
after_retry_loop(fallback_outcome, last_exc) ==
    IF has_fallback /\ fallback_outcome = "ok"
    THEN [how |-> "return", value |-> [kind |-> "result", of |-> "fallback", n |-> 0]]
    ELSE [how |-> "raise", value |-> last_exc]

\* Leaving the loop with last_exception = last_exc: the fallback is awaited if
\* there is one.
leave_retry_loop(last_exc) ==
    IF has_fallback
    THEN /\ retry_pc' = "fallback"
         /\ UNCHANGED retry_ret
    ELSE /\ retry_pc' = "raised"
         /\ retry_ret' = after_retry_loop("none", last_exc)

\* One iteration of the loop: the wrapped function is awaited and ends.
with_retry_attempt(outcome, random) ==
    /\ retry_pc = "call"
    /\ func_calls' = Append(func_calls, outcome)
    /\ IF outcome = "ok"
       THEN /\ retry_pc' = "returned"
            /\ retry_ret' = [how |-> "return",
                             value |-> [kind |-> "result", of |-> "func", n |-> attempt]]
            /\ UNCHANGED <<last_exception, pending_delay, attempt>>
       ELSE IF outcome = "BaseException"
       THEN /\ retry_pc' = "raised"
            /\ retry_ret' = [how |-> "raise",
                             value |-> [kind |-> outcome, of |-> "func", n |-> attempt]]
            /\ UNCHANGED <<last_exception, pending_delay, attempt>>
       ELSE /\ last_exception' = [kind |-> outcome, of |-> "func", n |-> attempt]
            /\ IF attempt < retry_config.max_retries
               THEN /\ pending_delay' = get_delay(retry_config, attempt, random)
                    /\ retry_pc' = "sleep"
                    /\ UNCHANGED <<retry_ret, attempt>>
               ELSE /\ IF attempt + 1 < retry_attempts
                       THEN /\ retry_pc' = "call"
                            /\ attempt' = attempt + 1
                            /\ UNCHANGED retry_ret
                       ELSE /\ leave_retry_loop(last_exception')
                            /\ UNCHANGED attempt
                    /\ UNCHANGED pending_delay
    /\ UNCHANGED <<retry_config, has_fallback, sleeps, fallback_calls, notRetry>>

\* asyncio.sleep(delay) returns and the loop goes on.
with_retry_wake ==
    /\ retry_pc = "sleep"
    /\ sleeps' = Append(sleeps, pending_delay)
    /\ IF attempt + 1 < retry_attempts
       THEN /\ retry_pc' = "call"
            /\ attempt' = attempt + 1
            /\ UNCHANGED retry_ret
       ELSE /\ leave_retry_loop(last_exception)
            /\ UNCHANGED attempt
    /\ UNCHANGED <<retry_config, has_fallback, last_exception, pending_delay, func_calls,
                   fallback_calls, notRetry>>

\* The awaited fallback ends.
with_retry_fallback(outcome) ==
    /\ retry_pc = "fallback"
    /\ fallback_calls' = Append(fallback_calls, outcome)
    /\ retry_ret' = after_retry_loop(outcome, last_exception)
    /\ retry_pc' = IF retry_ret'.how = "return" THEN "returned" ELSE "raised"
    /\ UNCHANGED <<retry_config, has_fallback, attempt, last_exception, pending_delay,
                   func_calls, sleeps, notRetry>>

RetryNext ==
    \/ \E c \in RetryConfigs, f \in BOOLEAN : with_retry_enter(c, f)
    \/ \E o \in {"ok", "Exception", "BaseException"}, r \in RandomSamples :
          with_retry_attempt(o, r)
    \/ with_retry_wake
    \/ \E o \in {"ok", "Exception"} : with_retry_fallback(o)

(***************************************************************************)
(* ResilientWorkflowEngine: the checkpointed step-graph engine, for one    *)
(* workflow_id, over MemoryWorkflowStorage (which stores and returns the   *)
(* WorkflowState object itself, and whose coroutines never suspend).  A    *)
(* coroutine suspends where it awaits a step's agent or asyncio.sleep;     *)
(* what lies between two suspensions is one action.                        *)
(***************************************************************************)
\* Step loop 0 is the task of execute_workflow, step loop 1 a resume_workflow call.
Loops == {0, 1}
StepCounts == {0, 1, 2}
StepIds == {"a", "b"}
\* "x" is the id of no step.
DependencyLists == {<<>>} \cup {<<d>> : d \in StepIds \cup {"x"}}
StepDefs(retry_count) == [id : StepIds, dependencies : DependencyLists,
                          retry_count : {retry_count}]
StepLists == UNION {UNION {[1..n -> StepDefs(rc)] : n \in StepCounts} :
                       rc \in 0..MaxStepRetries}
NoStep == [id |-> "", dependencies |-> <<>>, retry_count |-> 0]
TimeoutMessage == "workflow timeout"
\* How awaiting wait_for(agent.execute(..), timeout=step.timeout) ends, with
\* the exception it raises.
AttemptOutcomes == {"ok", "error", "timeout"}
AttemptException(outcome) ==
    IF outcome = "timeout" THEN [kind |-> "TimeoutError", msg |-> ""]
    ELSE [kind |-> "Exception", msg |-> "step error"]

Range(seq) == {seq[i] : i \in 1..Len(seq)}

StepRetryDelay == 30

EngRetryInit ==
    /\ loop_delay = [l \in Loops |-> 0]
    /\ loop_outcome = [l \in Loops |-> "none"]

EngInit ==
    /\ wf = [current_step |-> "", status |-> "none", steps_completed |-> <<>>,
             steps_failed |-> <<>>, state_data |-> {}, error_message |-> None]
    /\ ws_stored = FALSE
    /\ stored_steps = <<>>
    /\ checkpoint = [saved |-> FALSE, state_data |-> {}, steps_completed |-> <<>>]
    /\ active = FALSE
    /\ exec_pc = "idle"
    /\ exec_steps = <<>>
    /\ exec_ret = [success |-> FALSE, error |-> None]
    /\ loop_pc = [l \in Loops |-> "idle"]
    /\ loop_steps = [l \in Loops |-> <<>>]
    /\ loop_cur = [l \in Loops |-> NoStep]
    /\ loop_attempt = [l \in Loops |-> 0]
    /\ loop_exc = [l \in Loops |-> NoException]
    /\ attempt_log = {}

\* A mutant of dependencies_met: the dependencies are not looked at.
dependencies_ignored(step, state) ==
    TRUE

dependencies_met(step, state) ==
    \A d \in Range(step.dependencies) : d \in Range(state.steps_completed)

IsExecutable(step, state) ==
    /\ step.id \notin Range(state.steps_completed)
    /\ step.id \notin Range(state.steps_failed)
    /\ dependencies_met(step, state)

\* _get_executable_steps
get_executable_steps(steps, state) ==
    SelectSeq(steps, LAMBDA step : IsExecutable(step, state))

\* What attempt_log records when loop l starts the agent of step.
AttemptEvent(l, step, n, state) ==
    [loop |-> l, step |-> step.id, attempt |-> n,
     deps_done |-> \A d \in Range(step.dependencies) :
                      d \in Range(state.steps_completed),
     done_before |-> step.id \in Range(state.steps_completed) \cup
                                 Range(state.steps_failed)]

\* _execute_workflow_steps from the computation of remaining_steps, with the
\* workflow state being `state`, to the first attempt of the next step, or
\* to the end of the loop.
loop_advance(l, steps, state) ==
    LET remaining == get_executable_steps(steps, state)
        current == remaining[1]
    IN  IF remaining = <<>>
        THEN /\ wf' = [state EXCEPT !.status = "completed"]
             /\ loop_pc' = [loop_pc EXCEPT ![l] = "finished"]
             /\ loop_cur' = [loop_cur EXCEPT ![l] = NoStep]
             /\ UNCHANGED <<checkpoint, loop_attempt, attempt_log>>
        ELSE /\ wf' = [state EXCEPT !.current_step = current.id]
             /\ checkpoint' = [saved |-> TRUE, state_data |-> state.state_data,
                               steps_completed |-> state.steps_completed]
             /\ loop_pc' = [loop_pc EXCEPT ![l] = "attempt"]
             /\ loop_cur' = [loop_cur EXCEPT ![l] = current]
             /\ loop_attempt' = [loop_attempt EXCEPT ![l] = 0]
             /\ attempt_log' = attempt_log \cup {AttemptEvent(l, current, 0, state)}

\* execute_workflow up to its await of wait_for(task, timeout=3600).
execute_workflow(steps) ==
    /\ exec_pc = "idle"
    /\ wf' = [current_step |-> IF steps = <<>> THEN "" ELSE steps[1].id,
              status |-> "running", steps_completed |-> <<>>, steps_failed |-> <<>>,
              state_data |-> {}, error_message |-> None]
    /\ ws_stored' = TRUE
    /\ active' = TRUE
    /\ exec_pc' = "waiting"
    /\ exec_steps' = steps
    /\ loop_pc' = [loop_pc EXCEPT ![0] = "created"]
    /\ loop_steps' = [loop_steps EXCEPT ![0] = steps]
    /\ UNCHANGED <<stored_steps, checkpoint, exec_ret, loop_cur, loop_attempt, loop_exc,
                   attempt_log, notEng>>

\* The task of execute_workflow runs for the first time.
task_start ==
    /\ loop_pc[0] = "created"
    /\ loop_advance(0, loop_steps[0], wf)
    /\ UNCHANGED <<ws_stored, stored_steps, active, exec_pc, exec_steps, exec_ret,
                   loop_steps, loop_exc, notEng>>

\* A mutant of fail_workflow: the status is left as it is.
fail_workflow_keeps_status(state, step, exc) ==
    [state EXCEPT !.steps_failed = Append(@, step.id),
                  !.error_message = exc.msg]

\* The except clause of _execute_workflow_steps: the state it saves.
fail_workflow(state, step, exc) ==
    [state EXCEPT !.steps_failed = Append(@, step.id),
                  !.error_message = exc.msg,
                  !.status = "failed"]

\* A mutant of retry_sleep: the wait does not grow.
retry_sleep_constant(k) == StepRetryDelay

\* step.retry_delay * (2 ** attempt), with the default retry_delay.
retry_sleep(k) == StepRetryDelay * Pow(2, k)

\* The awaited attempt of loop l's current step ends: by its result, by an
\* exception of the agent, or by the TimeoutError of wait_for.  loop_outcome
\* keeps how it ended, loop_delay the wait that follows a failed attempt.
attempt_end(l, outcome) ==
    LET step == loop_cur[l]
        exc == AttemptException(outcome)
    IN  /\ loop_pc[l] = "attempt"
        /\ loop_outcome' = [loop_outcome EXCEPT ![l] = outcome]
        /\ loop_delay' = [loop_delay EXCEPT ![l] =
                             IF outcome # "ok" /\ loop_attempt[l] < step.retry_count
                             THEN retry_sleep(loop_attempt[l]) ELSE @]
        /\ IF outcome = "ok"
           THEN /\ loop_advance(l, loop_steps[l],
                                [wf EXCEPT !.state_data = @ \cup {step.id},
                                           !.steps_completed = Append(@, step.id)])
                /\ UNCHANGED loop_exc
           ELSE IF loop_attempt[l] < step.retry_count
           THEN /\ loop_pc' = [loop_pc EXCEPT ![l] = "sleep"]
                /\ UNCHANGED <<wf, checkpoint, loop_cur, loop_attempt, loop_exc,
                               attempt_log>>
           ELSE /\ wf' = fail_workflow(wf, step, exc)
                /\ loop_pc' = [loop_pc EXCEPT ![l] = "raised"]
                /\ loop_exc' = [loop_exc EXCEPT ![l] = exc]
                /\ UNCHANGED <<checkpoint, loop_cur, loop_attempt, attempt_log>>
        /\ UNCHANGED <<ws_stored, stored_steps, active, exec_pc, exec_steps, exec_ret,
                       loop_steps, notEngRetry>>

\* asyncio.sleep(retry_delay * 2 ** attempt) returns: the next attempt starts.
sleep_end(l) ==
    /\ loop_pc[l] = "sleep"
    /\ loop_pc' = [loop_pc EXCEPT ![l] = "attempt"]
    /\ loop_attempt' = [loop_attempt EXCEPT ![l] = @ + 1]
    /\ attempt_log' = attempt_log \cup
                         {AttemptEvent(l, loop_cur[l], loop_attempt[l] + 1, wf)}
    /\ UNCHANGED <<wf, ws_stored, stored_steps, checkpoint, active, exec_pc, exec_steps,
                   exec_ret, loop_steps, loop_cur, loop_exc, notEng>>

\* _handle_workflow_timeout: the state it saves (the task, if still
\* registered, has been cancelled and is unregistered).
handle_workflow_timeout(state) ==
    IF ws_stored
    THEN [state EXCEPT !.status = "failed", !.error_message = TimeoutMessage]
    ELSE state

\* wait_for(task) ends because the task has ended.
execute_workflow_return ==
    /\ exec_pc = "waiting"
    /\ loop_pc[0] \in {"finished", "raised", "cancelled"}
    /\ IF loop_pc[0] = "finished"
       THEN /\ exec_pc' = "returned"
            /\ exec_ret' = [success |-> TRUE, error |-> None]
            /\ UNCHANGED <<wf, active>>
       ELSE IF loop_pc[0] = "cancelled"
       THEN /\ exec_pc' = "cancelled"
            /\ UNCHANGED <<wf, active, exec_ret>>
       ELSE IF loop_exc[0].kind = "TimeoutError"
       THEN /\ exec_pc' = "returned"
            /\ wf' = handle_workflow_timeout(wf)
            /\ active' = FALSE
            /\ exec_ret' = [success |-> FALSE, error |-> TimeoutMessage]
       ELSE /\ exec_pc' = "returned"
            /\ exec_ret' = [success |-> FALSE, error |-> loop_exc[0].msg]
            /\ UNCHANGED <<wf, active>>
    /\ UNCHANGED <<ws_stored, stored_steps, checkpoint, exec_steps, loop_pc, loop_steps,
                   loop_cur, loop_attempt, loop_exc, attempt_log, notEng>>

\* A mutant of cancel_task: the task goes on.
cancel_task_ignored(pc) == pc

\* Task.cancel(): a task that has not ended is cancelled where it is suspended
\* (CancelledError is no Exception: no except clause of the loop catches it).
cancel_task(pc) ==
    IF pc \in {"created", "attempt", "sleep"} THEN "cancelled" ELSE pc

\* The 3600 seconds of wait_for elapse before the task has ended: wait_for
\* cancels the task and, once it has ended, raises TimeoutError.
workflow_timeout ==
    /\ exec_pc = "waiting"
    /\ loop_pc[0] \in {"created", "attempt", "sleep"}
    /\ exec_pc' = "timed_out"
    /\ loop_pc' = [loop_pc EXCEPT ![0] = cancel_task(@)]
    /\ UNCHANGED <<wf, ws_stored, stored_steps, checkpoint, active, exec_steps, exec_ret,
                   loop_steps, loop_cur, loop_attempt, loop_exc, attempt_log, notEng>>

\* The except asyncio.TimeoutError clause of execute_workflow.
workflow_timeout_handler ==
    /\ exec_pc = "timed_out"
    /\ loop_pc[0] \in {"finished", "raised", "cancelled"}
    /\ wf' = handle_workflow_timeout(wf)
    /\ active' = FALSE
    /\ exec_pc' = "returned"
    /\ exec_ret' = [success |-> FALSE, error |-> TimeoutMessage]
    /\ UNCHANGED <<ws_stored, stored_steps, checkpoint, exec_steps, loop_pc, loop_steps,
                   loop_cur, loop_attempt, loop_exc, attempt_log, notEng>>

\* resume_workflow, as step loop l >= 1, up to its first suspension.
resume_workflow(l) ==
    /\ l >= 1
    /\ loop_pc[l] = "idle"
    /\ \A k \in 1..(l - 1) : loop_pc[k] # "idle"
    /\ IF ~ws_stored
       THEN /\ loop_pc' = [loop_pc EXCEPT ![l] = "raised"]
            /\ loop_exc' = [loop_exc EXCEPT ![l] =
                               [kind |-> "ValueError", msg |-> "workflow not found"]]
            /\ UNCHANGED <<wf, checkpoint, loop_steps, loop_cur, loop_attempt,
                           attempt_log>>
       ELSE /\ loop_steps' = [loop_steps EXCEPT ![l] = stored_steps]
            /\ loop_advance(l, stored_steps, [wf EXCEPT !.status = "running"])
            /\ UNCHANGED loop_exc
    /\ UNCHANGED <<ws_stored, stored_steps, active, exec_pc, exec_steps, exec_ret, notEng>>

\* engine.cancel_workflow
engine_cancel_workflow ==
    /\ active \/ ws_stored
    /\ loop_pc' = IF active THEN [loop_pc EXCEPT ![0] = cancel_task(@)] ELSE loop_pc
    /\ active' = FALSE
    /\ wf' = IF ws_stored THEN [wf EXCEPT !.status = "cancelled"] ELSE wf
    /\ UNCHANGED <<ws_stored, stored_steps, checkpoint, exec_pc, exec_steps, exec_ret,
                   loop_steps, loop_cur, loop_attempt, loop_exc, attempt_log, notEng>>

\* storage.save_workflow_steps, called by the engine's user with the steps of
\* the workflow (the engine itself never calls it).
save_workflow_steps ==
    /\ exec_pc # "idle"
    /\ stored_steps # exec_steps
    /\ stored_steps' = exec_steps
    /\ UNCHANGED <<wf, ws_stored, checkpoint, active, exec_pc, exec_steps, exec_ret,
                   loop_pc, loop_steps, loop_cur, loop_attempt, loop_exc, attempt_log,
                   notEng>>

EngNext ==
    \/ \E steps \in StepLists : execute_workflow(steps)
    \/ task_start
    \/ \E l \in Loops, o \in AttemptOutcomes : attempt_end(l, o)
    \/ \E l \in Loops : sleep_end(l)
    \/ execute_workflow_return
    \/ workflow_timeout
    \/ workflow_timeout_handler
    \/ \E l \in Loops : resume_workflow(l)
    \/ engine_cancel_workflow
    \/ save_workflow_steps

(***************************************************************************)
(* WebSocketSyncService and the /api/websocket_sync endpoints.  The caller *)
(* is the tenant of the authenticated TenantContext.  The frontend answers *)
(* a forwarded update or an access query with success or with a failure.   *)
(* A response is held as its HTTP status code; owner is the tenant_id the  *)
(* registry held for the workflow when the call arrived.                   *)
(***************************************************************************)
SyncWorkflowIds == {"wf1", "wf2"}
AgentIds == {"agent1"}
NoOwner == "unregistered"

SyncInit ==
    /\ active_workflows = [w \in {} |-> 0]
    /\ sync_ret = [op |-> "none"]

\* The tenant_id of the registry entry of a workflow (None: the entry has none).
RegisteredTenant(workflow_id) ==
    IF workflow_id \in DOMAIN active_workflows
    THEN active_workflows[workflow_id].tenant_id
    ELSE NoOwner

SyncResponse(op, caller, workflow_id, code) ==
    [op |-> op, caller |-> caller, workflow_id |-> workflow_id,
     owner |-> RegisteredTenant(workflow_id), code |-> code]

\* WebSocketSyncService.register_workflow through its endpoint; tenant_id is
\* the one in the workflow_data of the request (None: it has none).
register_workflow(caller, workflow_id, tenant_id) ==
    /\ active_workflows' = With(active_workflows, workflow_id,
                                [tenant_id |-> tenant_id, status |-> "running",
                                 agents |-> {}])
    /\ sync_ret' = SyncResponse("register_workflow", caller, workflow_id, 200)
    /\ UNCHANGED notSync

\* validate_tenant_workflow_access
validate_tenant_workflow_access(workflow_id, tenant_id, frontend_ok) ==
    IF workflow_id \notin DOMAIN active_workflows
    THEN frontend_ok
    ELSE active_workflows[workflow_id].tenant_id = tenant_id

\* POST /agent_update/{workflow_id}
send_agent_update(caller, workflow_id, agent_id, access_ok, post_ok) ==
    /\ IF ~validate_tenant_workflow_access(workflow_id, caller, access_ok)
       THEN /\ sync_ret' = SyncResponse("agent_update", caller, workflow_id, 403)
            /\ UNCHANGED active_workflows
       ELSE IF ~post_ok
       THEN /\ sync_ret' = SyncResponse("agent_update", caller, workflow_id, 500)
            /\ UNCHANGED active_workflows
       ELSE /\ sync_ret' = SyncResponse("agent_update", caller, workflow_id, 200)
            /\ active_workflows' =
                  LET entry == IF workflow_id \in DOMAIN active_workflows
                               THEN active_workflows[workflow_id]
                               ELSE [tenant_id |-> None, status |-> "running",
                                     agents |-> {}]
                  IN  With(active_workflows, workflow_id,
                           [entry EXCEPT !.agents = @ \cup {agent_id}])
    /\ UNCHANGED notSync

\* POST /workflow_update/{workflow_id}: the update is forwarded; a failure of
\* the frontend is logged by the service and the endpoint still answers 200.
send_workflow_update(caller, workflow_id, post_ok) ==
    /\ sync_ret' = [SyncResponse("workflow_update", caller, workflow_id, 200)
                       EXCEPT !.op = IF post_ok THEN "workflow_update"
                                     ELSE "workflow_update_lost"]
    /\ UNCHANGED <<active_workflows, notSync>>

\* POST /progress_update/{workflow_id}
send_progress_update(caller, workflow_id, post_ok) ==
    /\ sync_ret' = [SyncResponse("progress_update", caller, workflow_id, 200)
                       EXCEPT !.op = IF post_ok THEN "progress_update"
                                     ELSE "progress_update_lost"]
    /\ UNCHANGED <<active_workflows, notSync>>

\* GET /status/{workflow_id}
sync_get_workflow_status(caller, workflow_id) ==
    /\ sync_ret' = SyncResponse("status", caller, workflow_id,
                                IF workflow_id \in DOMAIN active_workflows
                                THEN 200 ELSE 404)
    /\ UNCHANGED <<active_workflows, notSync>>

\* DELETE /unregister_workflow/{workflow_id}
unregister_workflow(caller, workflow_id) ==
    /\ active_workflows' = Without(active_workflows, workflow_id)
    /\ sync_ret' = SyncResponse("unregister_workflow", caller, workflow_id, 200)
    /\ UNCHANGED notSync

SyncNext ==
    \/ \E c \in Tenants, w \in SyncWorkflowIds, t \in Tenants \cup {None} :
          register_workflow(c, w, t)
    \/ \E c \in Tenants, w \in SyncWorkflowIds, a \in AgentIds, ok1, ok2 \in BOOLEAN :
          send_agent_update(c, w, a, ok1, ok2)
    \/ \E c \in Tenants, w \in SyncWorkflowIds, ok \in BOOLEAN :
          send_workflow_update(c, w, ok)
    \/ \E c \in Tenants, w \in SyncWorkflowIds, ok \in BOOLEAN :
          send_progress_update(c, w, ok)
    \/ \E c \in Tenants, w \in SyncWorkflowIds : sync_get_workflow_status(c, w)
    \/ \E c \in Tenants, w \in SyncWorkflowIds : unregister_workflow(c, w)

(***************************************************************************)
(* CacheManager: the TTL cache.  Time is in seconds.  An Optional[int] is  *)
(* the empty set (None) or the set of the number.  CacheManager.get        *)
(* returns None for a missing or expired entry.                            *)
(***************************************************************************)
CacheKeys == {"k1", "k2"}
CacheValues == {"v1", "v2"}
TtlArgs == {{}} \cup {{n} : n \in 0..MaxTtl}

CacheInit ==
    /\ cache = [k \in {} |-> 0]
    /\ clock = 0
    /\ cache_ret = [op |-> "none"]

\* A mutant of effective_ttl: the default is taken only for None.
effective_ttl_none_only(ttl) ==
    IF ttl = {} THEN DefaultTtl ELSE CHOOSE n \in ttl : TRUE

\* ttl or self.default_ttl
effective_ttl(ttl) ==
    IF ttl = {} \/ ttl = {0} THEN DefaultTtl ELSE CHOOSE n \in ttl : TRUE

\* The cache after CacheManager.set; `requested` keeps the ttl argument (history).
cache_after_set(key, value, ttl) ==
    With(cache, key, [value |-> value, expires_at |-> clock + effective_ttl(ttl),
                      created_at |-> clock, requested |-> ttl])

\* What CacheManager.get returns.
cache_get_result(key) ==
    IF key \in DOMAIN cache /\ clock < cache[key].expires_at
    THEN cache[key].value
    ELSE None

\* The cache after CacheManager.get: an expired entry is deleted.
cache_after_get(key) ==
    IF key \in DOMAIN cache /\ ~(clock < cache[key].expires_at)
    THEN Without(cache, key)
    ELSE cache

\* get_stats()["total_entries"]
total_entries(c) == Cardinality(DOMAIN c)

\* CacheManager.set
cache_set(key, value, ttl) ==
    /\ cache' = cache_after_set(key, value, ttl)
    /\ cache_ret' = [op |-> "set", key |-> key]
    /\ UNCHANGED <<clock, wcVars, parVars, notPerf>>

\* CacheManager.get
cache_get(key) ==
    /\ cache' = cache_after_get(key)
    /\ cache_ret' = [op |-> "get", key |-> key, result |-> cache_get_result(key),
                     time |-> clock]
    /\ UNCHANGED <<clock, wcVars, parVars, notPerf>>

\* CacheManager.cleanup_expired
cleanup_expired ==
    /\ \E k \in DOMAIN cache : clock >= cache[k].expires_at
    /\ cache' = [k \in {x \in DOMAIN cache : ~(clock >= cache[x].expires_at)} |->
                    cache[k]]
    /\ cache_ret' = [op |-> "cleanup_expired"]
    /\ UNCHANGED <<clock, wcVars, parVars, notPerf>>

\* A second passes.
clock_tick ==
    /\ clock < MaxClock
    /\ clock' = clock + 1
    /\ UNCHANGED <<cache, cache_ret, wcVars, parVars, notPerf>>

CacheNext ==
    \/ \E k \in CacheKeys, v \in CacheValues, t \in TtlArgs : cache_set(k, v, t)
    \/ \E k \in CacheKeys : cache_get(k)
    \/ cleanup_expired
    \/ clock_tick

(***************************************************************************)
(* with_cache: an async function wrapped with a CacheManager.  Arguments   *)
(* are held as the JSON text _generate_cache_key serialises them to.  The  *)
(* wrapper suspends only while it awaits the wrapped function.             *)
(***************************************************************************)
Callers == {1, 2}
CallArgs == {"[5]"}
FuncResults == {None, "r1", "r2"}
key_prefix == "test_"

WithCacheInit ==
    /\ wc_ttl = {}
    /\ wc_pc = [c \in Callers |-> "idle"]
    /\ wc_args = [c \in Callers |-> "[5]"]
    /\ wc_ret = [c \in Callers |-> [how |-> "none"]]
    /\ call_count = [a \in CallArgs |-> 0]
    /\ last_done = [a \in CallArgs |-> {}]

\* _generate_cache_key: the MD5 digest of the serialised arguments.
generate_cache_key(args) == "md5:" \o args

\* The decorator is applied with a ttl argument (before the first call).
with_cache(ttl) ==
    /\ ttl # wc_ttl
    /\ \A a \in CallArgs : call_count[a] = 0
    /\ \A c \in Callers : wc_ret[c].how = "none"
    /\ wc_ttl' = ttl
    /\ UNCHANGED <<wc_pc, wc_args, wc_ret, call_count, last_done, cacheVars, parVars,
                   notPerf>>

\* wrapper, from its call to the return of a cached value or to the await of
\* the wrapped function.
wrapper_call(c, args) ==
    LET cache_key == key_prefix \o generate_cache_key(args)
        cached_value == cache_get_result(cache_key)
    IN  /\ wc_pc[c] = "idle"
        /\ call_count[args] < MaxInvocations
        /\ wc_args' = [wc_args EXCEPT ![c] = args]
        /\ cache' = cache_after_get(cache_key)
        /\ IF cached_value # None
           THEN /\ wc_ret' = [wc_ret EXCEPT ![c] =
                                 [how |-> "cached", value |-> cached_value,
                                  time |-> clock]]
                /\ UNCHANGED <<wc_pc, call_count>>
           ELSE /\ wc_pc' = [wc_pc EXCEPT ![c] = "awaiting"]
                /\ call_count' = [call_count EXCEPT ![args] = @ + 1]
                /\ UNCHANGED wc_ret
        /\ UNCHANGED <<wc_ttl, last_done, clock, cache_ret, parVars, notPerf>>

\* The wrapped function returns result: the wrapper stores and returns it.
wrapper_return(c, result) ==
    LET cache_key == key_prefix \o generate_cache_key(wc_args[c])
    IN  /\ wc_pc[c] = "awaiting"
        /\ cache' = cache_after_set(cache_key, result, wc_ttl)
        /\ wc_pc' = [wc_pc EXCEPT ![c] = "idle"]
        /\ wc_ret' = [wc_ret EXCEPT ![c] =
                         [how |-> "computed", value |-> result, time |-> clock]]
        /\ last_done' = [last_done EXCEPT ![wc_args[c]] =
                            {[value |-> result, time |-> clock]}]
        /\ UNCHANGED <<wc_ttl, wc_args, call_count, clock, cache_ret, parVars, notPerf>>

\* The wrapped function raises: the exception leaves the wrapper.
wrapper_raise(c) ==
    /\ wc_pc[c] = "awaiting"
    /\ wc_pc' = [wc_pc EXCEPT ![c] = "idle"]
    /\ wc_ret' = [wc_ret EXCEPT ![c] = [how |-> "raised", value |-> None,
                                        time |-> clock]]
    /\ UNCHANGED <<wc_ttl, wc_args, call_count, last_done, cacheVars, parVars, notPerf>>

WithCacheNext ==
    \/ \E t \in TtlArgs : with_cache(t)
    \/ \E c \in Callers, a \in CallArgs : wrapper_call(c, a)
    \/ \E c \in Callers, r \in FuncResults : wrapper_return(c, r)
    \/ \E c \in Callers : wrapper_raise(c)
    \/ clock_tick

(***************************************************************************)
(* ParallelExecutor.execute_parallel: one call, with coroutine objects as  *)
(* the supplied tasks (a coroutine starts to run when it is first awaited, *)
(* inside the semaphore).                                                  *)
(***************************************************************************)
TaskOutcomes == {"result", "exception"}

ParInit ==
    /\ par_pc = "idle"
    /\ max_concurrent = 0
    /\ semaphore = 0
    /\ task_state = <<>>
    /\ run_count = <<>>
    /\ results = <<>>

\* execute_parallel up to the await of asyncio.gather.
execute_parallel(n_tasks, n) ==
    /\ par_pc = "idle"
    /\ par_pc' = "gathering"
    /\ max_concurrent' = n
    /\ semaphore' = n
    /\ task_state' = [i \in 1..n_tasks |-> "waiting"]
    /\ run_count' = [i \in 1..n_tasks |-> 0]
    /\ results' = [i \in 1..n_tasks |-> "pending"]
    /\ UNCHANGED <<cacheVars, wcVars, notPerf>>

\* A mutant of semaphore_free: the semaphore never blocks.
semaphore_always_free(value) == TRUE

\* Semaphore.acquire does not block.
semaphore_free(value) == value > 0

\* execute_with_semaphore(task) enters `async with semaphore` and awaits task.
semaphore_acquire(i) ==
    /\ par_pc = "gathering"
    /\ task_state[i] = "waiting"
    /\ semaphore_free(semaphore)
    /\ semaphore' = semaphore - 1
    /\ task_state' = [task_state EXCEPT ![i] = "running"]
    /\ run_count' = [run_count EXCEPT ![i] = @ + 1]
    /\ UNCHANGED <<par_pc, max_concurrent, results, cacheVars, wcVars, notPerf>>

\* The task ends, in a result or in an exception, and the semaphore is
\* released; gather keeps what it ended in.
task_end(i, outcome) ==
    /\ par_pc = "gathering"
    /\ task_state[i] = "running"
    /\ semaphore' = semaphore + 1
    /\ task_state' = [task_state EXCEPT ![i] = "done"]
    /\ results' = [results EXCEPT ![i] = outcome]
    /\ UNCHANGED <<par_pc, max_concurrent, run_count, cacheVars, wcVars, notPerf>>

\* gather(..., return_exceptions=True) returns when every wrapper has ended.
gather_return ==
    /\ par_pc = "gathering"
    /\ \A i \in DOMAIN task_state : task_state[i] = "done"
    /\ par_pc' = "returned"
    /\ UNCHANGED <<max_concurrent, semaphore, task_state, run_count, results, cacheVars,
                   wcVars, notPerf>>

ParProgress ==
    \/ \E i \in DOMAIN task_state : semaphore_acquire(i)
    \/ \E i \in DOMAIN task_state, o \in TaskOutcomes : task_end(i, o)
    \/ gather_return

ParNext ==
    \/ \E k \in 0..MaxTasks, n \in 1..MaxConcurrent : execute_parallel(k, n)
    \/ \E i \in DOMAIN task_state : semaphore_acquire(i)
    \/ \E i \in DOMAIN task_state, o \in TaskOutcomes : task_end(i, o)
    \/ gather_return

(***************************************************************************)
(* MetricsCollector and AlertManager.  A metric entry keeps the minute it  *)
(* was recorded at and its value; the average of a window is kept as the   *)
(* sum and the count of its values.                                        *)
(***************************************************************************)
RuleNames == {"test_alert", "other_alert"}
MetricNames == {"test_metric"}
Conditions == {"gt", "lt", "eq"}
Thresholds == {100}
MetricValues == {50, 150}
MetricsKept == 1000
AlertWindowMinutes == 5

MonInit ==
    /\ metrics = [n \in MetricNames |-> <<>>]
    /\ alert_rules = <<>>
    /\ active_alerts = <<>>
    /\ alert_history = <<>>

\* The last n elements of a list: list[-n:]
LastN(list, n) ==
    IF Len(list) <= n THEN list ELSE SubSeq(list, Len(list) - n + 1, Len(list))

\* MetricsCollector.record_metric
record_metric(metric_name, value) ==
    /\ Len(metrics[metric_name]) < MaxMetricEntries
    /\ metrics' = [metrics EXCEPT ![metric_name] =
                      LastN(Append(@, [timestamp |-> now, value |-> value]),
                            MetricsKept)]
    /\ UNCHANGED <<alert_rules, active_alerts, alert_history, notMon>>

RECURSIVE SeqSum(_)
SeqSum(values) ==
    IF values = <<>> THEN 0 ELSE Head(values) + SeqSum(Tail(values))

\* MetricsCollector.get_metric_stats(metric_name, timedelta(minutes=5)): {} for
\* no entry in the window, else the sum and count of the values ("avg").
get_metric_stats(metric_name) ==
    LET window == SelectSeq(metrics[metric_name],
                            LAMBDA e : e.timestamp > now - AlertWindowMinutes)
    IN  IF window = <<>> THEN {}
        ELSE {[sum |-> SeqSum([i \in DOMAIN window |-> window[i].value]),
               count |-> Len(window)]}

\* AlertManager.add_alert_rule
add_alert_rule(rule_name, metric_name, condition, threshold) ==
    /\ Len(alert_rules) < MaxRules
    /\ alert_rules' = Append(alert_rules,
                             [name |-> rule_name, metric_name |-> metric_name,
                              condition |-> condition, threshold |-> threshold,
                              severity |-> "warning", enabled |-> TRUE])
    /\ UNCHANGED <<metrics, active_alerts, alert_history, notMon>>

\* The condition of a rule on the average avg.sum / avg.count.
triggered(rule, avg) ==
    \/ rule.condition = "gt" /\ avg.sum > rule.threshold * avg.count
    \/ rule.condition = "lt" /\ avg.sum < rule.threshold * avg.count
    \/ rule.condition = "eq" /\ avg.sum = rule.threshold * avg.count

\* A mutant of existing_alert: no active alert is found.
existing_alert_not_found(alerts, rule_name) == FALSE

\* _trigger_alert's search for an active alert of the rule.
existing_alert(alerts, rule_name) ==
    \E i \in DOMAIN alerts : alerts[i].rule_name = rule_name

\* _trigger_alert on the lists <<active_alerts, alert_history>>.
trigger_alert(lists, rule, current_value) ==
    LET alert == [rule_name |-> rule.name, metric_name |-> rule.metric_name,
                  severity |-> rule.severity, current_value |-> current_value,
                  threshold |-> rule.threshold, timestamp |-> now,
                  status |-> "active"]
    IN  IF existing_alert(lists[1], rule.name) THEN lists
        ELSE <<Append(lists[1], alert), Append(lists[2], alert)>>

\* The loop of check_alerts over the rules from index i on.
RECURSIVE check_rules(_, _)
check_rules(i, lists) ==
    IF i > Len(alert_rules) THEN lists
    ELSE LET rule == alert_rules[i]
             metric_stats == get_metric_stats(rule.metric_name)
         IN  IF ~rule.enabled \/ metric_stats = {} THEN check_rules(i + 1, lists)
             ELSE LET current_value == CHOOSE a \in metric_stats : TRUE
                  IN  IF triggered(rule, current_value)
                      THEN check_rules(i + 1, trigger_alert(lists, rule, current_value))
                      ELSE check_rules(i + 1, lists)

\* AlertManager.check_alerts
check_alerts ==
    LET lists == check_rules(1, <<active_alerts, alert_history>>) IN
    /\ Len(alert_history) + Len(alert_rules) <= MaxAlertHistory
    /\ active_alerts' = lists[1]
    /\ alert_history' = lists[2]
    /\ UNCHANGED <<metrics, alert_rules, notMon>>

\* AlertManager.resolve_alert
resolve_alert(rule_name) ==
    /\ active_alerts' = SelectSeq(active_alerts, LAMBDA a : a.rule_name # rule_name)
    /\ UNCHANGED <<metrics, alert_rules, alert_history, notMon>>

MonNext ==
    \/ \E r \in RuleNames, m \in MetricNames, c \in Conditions, t \in Thresholds :
          add_alert_rule(r, m, c, t)
    \/ \E m \in MetricNames, v \in MetricValues : record_metric(m, v)
    \/ check_alerts
    \/ \E r \in RuleNames : resolve_alert(r)
    \/ Tick

(***************************************************************************)
(* WebSocketAwareAgent.execute: one call.  A notification is what          *)
(* notify_status hands to notify_agent_status; its delivery succeeds or    *)
(* raises (an HTTP error), which notify_status catches.  process() may     *)
(* call update_progress, and ends in a result, in an exception derived     *)
(* from Exception, or in one that is not (asyncio.CancelledError).         *)
(***************************************************************************)
ProcessResults == {"result"}
ProcessExceptions == {[kind |-> "Exception", text |-> "boom"],
                      [kind |-> "CancelledError", text |-> ""]}
ProgressValues == {30, 60}
NoOutcome == [how |-> "none"]

WsInit ==
    /\ ws_pc = "idle"
    /\ notifications = <<>>
    /\ current_progress = 0
    /\ process_outcome = NoOutcome
    /\ ws_ret = NoOutcome

\* notify_status: the notifications afterwards.
notify_status(status, progress, message, delivered) ==
    Append(notifications, [status |-> status, progress |-> progress,
                           message |-> message, delivered |-> delivered])

\* notify_status: self.current_progress afterwards (set after the delivery).
progress_after_notify(progress, delivered) ==
    IF delivered THEN progress ELSE current_progress

\* execute up to the await of process().
execute_begin(delivered) ==
    /\ ws_pc = "idle"
    /\ notifications' = notify_status("processing", 0, "Starting", delivered)
    /\ current_progress' = progress_after_notify(0, delivered)
    /\ ws_pc' = "processing"
    /\ UNCHANGED <<process_outcome, ws_ret, notWs>>

\* process() calls update_progress.
update_progress(progress, delivered) ==
    /\ ws_pc = "processing"
    /\ Len(notifications) <= MaxProgressUpdates
    /\ notifications' = notify_status("processing", progress, "progress", delivered)
    /\ current_progress' = progress_after_notify(progress, delivered)
    /\ UNCHANGED <<ws_pc, process_outcome, ws_ret, notWs>>

\* execute after process() has returned.
process_return(result, delivered) ==
    /\ ws_pc = "processing"
    /\ process_outcome' = [how |-> "returned", value |-> result]
    /\ notifications' = notify_status("completed", 100, "Completed", delivered)
    /\ current_progress' = progress_after_notify(100, delivered)
    /\ ws_ret' = [how |-> "returned", value |-> result]
    /\ ws_pc' = "returned"
    /\ UNCHANGED notWs

\* A mutant of caught_by_execute: the except clause catches nothing.
caught_by_nothing(exc) == FALSE

\* except Exception as e
caught_by_execute(exc) == exc.kind = "Exception"

\* execute after process() has raised.
process_raise(exc, delivered) ==
    /\ ws_pc = "processing"
    /\ process_outcome' = [how |-> "raised", value |-> exc]
    /\ IF caught_by_execute(exc)
       THEN /\ notifications' = notify_status("error", current_progress,
                                              <<"Error in agent", exc.text>>, delivered)
            /\ current_progress' = progress_after_notify(current_progress, delivered)
       ELSE UNCHANGED <<notifications, current_progress>>
    /\ ws_ret' = [how |-> "raised", value |-> exc]
    /\ ws_pc' = "raised"
    /\ UNCHANGED notWs

WsNext ==
    \/ \E d \in BOOLEAN : execute_begin(d)
    \/ \E p \in ProgressValues, d \in BOOLEAN : update_progress(p, d)
    \/ \E r \in ProcessResults, d \in BOOLEAN : process_return(r, d)
    \/ \E e \in ProcessExceptions, d \in BOOLEAN : process_raise(e, d)

(***************************************************************************)
(* WebSocketAwareAgent.request_user_input over                             *)
(* WebSocketSyncService.get_user_response: one call.  Time is counted in   *)
(* sixteenths of a second, in which the poll intervals 1, 1.5, 2.25,       *)
(* 3.375 and 5 seconds are whole numbers, and passes while the call        *)
(* sleeps.  timedelta.seconds is the seconds within the day: the model     *)
(* keeps the elapsed time within the day, and whether a day has passed.    *)
(***************************************************************************)
Ticks(seconds) == seconds * 16
InitialPollInterval == 1
MaxPollInterval == 5
SecondsPerDay == 86400
UiTimeouts == {0, 10, 60, SecondsPerDay}
UserResponses == {"yes"}

UiInit ==
    /\ ui_pc = "idle"
    /\ ui_timeout = 0
    /\ ui_elapsed = 0
    /\ ui_wrapped = FALSE
    /\ poll_interval = Ticks(InitialPollInterval)
    /\ ui_status = "none"
    /\ ui_ret = {}

\* request_user_input up to the first test of the polling loop.
request_user_input(timeout) ==
    /\ ui_pc = "idle"
    /\ ui_pc' = "loop"
    /\ ui_timeout' = timeout
    /\ ui_status' = "waiting_input"
    /\ UNCHANGED <<ui_elapsed, ui_wrapped, poll_interval, ui_ret, notUi>>

\* (datetime.now() - start_time).seconds
elapsed_seconds == ui_elapsed \div Ticks(1)

\* The loop test holds and the endpoint is polled: a stored response is
\* returned (and "processing" reported), anything else leads to the sleep.
poll(found) ==
    /\ ui_pc = "loop"
    /\ elapsed_seconds < ui_timeout
    /\ IF found # {}
       THEN /\ ui_ret' = found
            /\ ui_status' = "processing"
            /\ ui_pc' = "done"
       ELSE /\ ui_pc' = "sleeping"
            /\ UNCHANGED <<ui_ret, ui_status>>
    /\ UNCHANGED <<ui_timeout, ui_elapsed, ui_wrapped, poll_interval, notUi>>

\* min(poll_interval * 1.5, max_poll_interval)
next_poll_interval(interval) ==
    IF (interval * 3) \div 2 <= Ticks(MaxPollInterval)
    THEN (interval * 3) \div 2 ELSE Ticks(MaxPollInterval)

\* asyncio.sleep(poll_interval) ends.
poll_sleep_end ==
    /\ ui_pc = "sleeping"
    /\ ui_elapsed' = (ui_elapsed + poll_interval) % Ticks(SecondsPerDay)
    /\ ui_wrapped' = (ui_wrapped \/ ui_elapsed + poll_interval >= Ticks(SecondsPerDay))
    /\ poll_interval' = next_poll_interval(poll_interval)
    /\ ui_pc' = "loop"
    /\ UNCHANGED <<ui_timeout, ui_status, ui_ret, notUi>>

\* The loop test fails: get_user_response returns None, request_user_input
\* reports "error" and returns None.
poll_timeout ==
    /\ ui_pc = "loop"
    /\ ~(elapsed_seconds < ui_timeout)
    /\ ui_status' = "error"
    /\ ui_ret' = {}
    /\ ui_pc' = "done"
    /\ UNCHANGED <<ui_timeout, ui_elapsed, ui_wrapped, poll_interval, notUi>>

UiProgress ==
    \/ \E r \in UserResponses : poll({r})
    \/ poll({})
    \/ poll_sleep_end
    \/ poll_timeout

UiNext ==
    \/ \E t \in UiTimeouts : request_user_input(t)
    \/ \E r \in UserResponses : poll({r})
    \/ poll({})
    \/ poll_sleep_end
    \/ poll_timeout

(***************************************************************************)
(* CollaborativeWorkflow._phase_2_collaborative_generation: one call.      *)
(* Scores are in tenths (overall_score) and in hundredths (coverage_rate); *)
(* a key missing from the verification reads as 0.  The loop variable      *)
(* iteration and the variable verification are unbound ({}) until the     *)
(* loop body has run once.                                                 *)
(***************************************************************************)
AcceptScore == 70
AcceptCoverage == 80
MaxIterationsArgs == 0..MaxIterations
OverallScores == {0, 69, 70}
CoverageRates == {0, 79, 80}
Verifications == [overall_score : OverallScores, coverage_rate : CoverageRates]

CgInit ==
    /\ cg_pc = "idle"
    /\ cg_max = 0
    /\ iteration = {}
    /\ cg_rounds = 0
    /\ cg_refinements = 0
    /\ verification = {}
    /\ cg_accepted = FALSE
    /\ cg_ret = {}

_is_content_acceptable(v) ==
    v.overall_score >= AcceptScore /\ v.coverage_rate >= AcceptCoverage

\* The next value of range(max_iterations), {} when it is exhausted.
range_next(it, max_iterations) ==
    LET n == IF it = {} THEN 0 ELSE (CHOOSE i \in it : TRUE) + 1
    IN  IF n < max_iterations THEN {n} ELSE {}

\* The call up to the first test of the for loop (initial content made).
_phase_2_collaborative_generation(max_iterations) ==
    /\ cg_pc = "idle"
    /\ cg_max' = max_iterations
    /\ cg_pc' = "for"
    /\ UNCHANGED <<iteration, cg_rounds, cg_refinements, verification,
                   cg_accepted, cg_ret, notCg>>

\* One pass of the loop body up to the acceptance test: the content is
\* verified; an acceptable verification breaks out of the loop.
_verify_content(v) ==
    /\ cg_pc = "for"
    /\ range_next(iteration, cg_max) # {}
    /\ iteration' = range_next(iteration, cg_max)
    /\ verification' = {v}
    /\ cg_rounds' = cg_rounds + 1
    /\ IF _is_content_acceptable(v)
       THEN cg_pc' = "result" /\ cg_accepted' = TRUE
       ELSE cg_pc' = "refine" /\ UNCHANGED cg_accepted
    /\ UNCHANGED <<cg_max, cg_refinements, cg_ret, notCg>>

\* The rest of the loop body: suggestions are made and the content refined.
_refine_content ==
    /\ cg_pc = "refine"
    /\ cg_refinements' = cg_refinements + 1
    /\ cg_pc' = "for"
    /\ UNCHANGED <<cg_max, iteration, cg_rounds, verification, cg_accepted,
                   cg_ret, notCg>>

\* The range is exhausted, or the loop was left by break: the result is
\* built from iteration and verification, which are unbound when the loop
\* body never ran.
phase_2_result ==
    /\ \/ cg_pc = "result"
       \/ cg_pc = "for" /\ range_next(iteration, cg_max) = {}
    /\ cg_pc' = "done"
    /\ cg_ret' = IF iteration = {} \/ verification = {}
                 THEN {[kind |-> "UnboundLocalError"]}
                 ELSE {[kind |-> "result",
                        iterations |-> Min((CHOOSE i \in iteration : TRUE) + 1, cg_max),
                        final_verification |-> CHOOSE v \in verification : TRUE]}
    /\ UNCHANGED <<cg_max, iteration, cg_rounds, cg_refinements, verification,
                   cg_accepted, notCg>>

CgNext ==
    \/ \E max_iterations \in MaxIterationsArgs :
            _phase_2_collaborative_generation(max_iterations)
    \/ \E v \in Verifications : _verify_content(v)
    \/ _refine_content
    \/ phase_2_result

(***************************************************************************)
(* CheckpointManager: checkpoints[workflow_id][stage].  A stage name is a  *)
(* string, modelled as the sequence of its letters' ranks so that Python's *)
(* string comparison can be computed; the data of a checkpoint is a dict,  *)
(* modelled as the set of its keys.  The timestamp of a checkpoint is left *)
(* out.  The optional result of a call is {} for None.                     *)
(***************************************************************************)
CkptWorkflows == {"wf1", "wf2"}
CkptStages == {<<1>>, <<1, 2>>, <<2>>}            \* "a", "ab", "b"
CkptData == {{}, {"result"}}

RecoveryFuncs == {None, "returns", "raises"}

CkptInit ==
    /\ checkpoints = [w \in {} |-> <<>>]
    /\ ckpt_ret = [op |-> "none", seq |-> 0]
    /\ error_history = [w \in {} |-> <<>>]

\* Python's a > b on strings.
RECURSIVE str_greater(_, _)
str_greater(a, b) ==
    IF a = <<>> THEN FALSE
    ELSE IF b = <<>> THEN TRUE
    ELSE IF Head(a) # Head(b) THEN Head(a) > Head(b)
    ELSE str_greater(Tail(a), Tail(b))

\* The truth value of an optional dict: None and {} are false.
truthy(optional) == optional # {} /\ optional # {{}}

ckpt_returns(op, workflow_id, stage, result) ==
    ckpt_ret' = [op |-> op, workflow_id |-> workflow_id, stage |-> stage,
                 result |-> result, seq |-> 1 - ckpt_ret.seq]

save_checkpoint(workflow_id, stage, data) ==
    /\ checkpoints' =
          [w \in DOMAIN checkpoints \cup {workflow_id} |->
              IF w = workflow_id
              THEN LET old == IF w \in DOMAIN checkpoints
                              THEN checkpoints[w] ELSE <<>>
                   IN  [s \in DOMAIN old \cup {stage} |->
                          IF s = stage THEN [data |-> data, stage |-> stage]
                          ELSE old[s]]
              ELSE checkpoints[w]]
    /\ ckpt_returns("save_checkpoint", workflow_id, stage, {})
    /\ UNCHANGED <<error_history, notCkpt>>

loaded(cps, workflow_id, stage) ==
    IF workflow_id \in DOMAIN cps /\ stage \in DOMAIN cps[workflow_id]
    THEN {cps[workflow_id][stage].data}
    ELSE {}

load_checkpoint(workflow_id, stage) ==
    /\ ckpt_returns("load_checkpoint", workflow_id, stage,
                    loaded(checkpoints, workflow_id, stage))
    /\ UNCHANGED <<checkpoints, error_history, notCkpt>>

\* The rollback is made when the loaded data is true.
rollback_found(checkpoint_data) == truthy(checkpoint_data)

rollback_to_checkpoint(workflow_id, stage) ==
    LET checkpoint_data == loaded(checkpoints, workflow_id, stage)
    IN  /\ IF rollback_found(checkpoint_data) /\ workflow_id \in DOMAIN checkpoints
           THEN checkpoints' =
                  [checkpoints EXCEPT ![workflow_id] =
                      [s \in {saved_stage \in DOMAIN @ :
                                 ~str_greater(saved_stage, stage)} |-> @[s]]]
           ELSE UNCHANGED checkpoints
        /\ ckpt_returns("rollback_to_checkpoint", workflow_id, stage,
                        checkpoint_data)
        /\ UNCHANGED <<error_history, notCkpt>>

clear_checkpoints(workflow_id) ==
    /\ checkpoints' = [w \in DOMAIN checkpoints \ {workflow_id} |-> checkpoints[w]]
    /\ ckpt_returns("clear_checkpoints", workflow_id, <<>>, {})
    /\ UNCHANGED <<error_history, notCkpt>>

\* ErrorRecoveryManager.record_error: the record is kept by its stage.
record_error(history, workflow_id, stage) ==
    [w \in DOMAIN history \cup {workflow_id} |->
        IF w = workflow_id
        THEN Append(IF w \in DOMAIN history THEN history[w] ELSE <<>>, stage)
        ELSE history[w]]

\* The number of records of the error history.
RECURSIVE error_count(_)
error_count(history) ==
    IF DOMAIN history = {} THEN 0
    ELSE LET w == CHOOSE x \in DOMAIN history : TRUE
         IN  Len(history[w]) + error_count(Without(history, w))

\* ErrorRecoveryManager.recover_from_error.  recovery is the recovery_func:
\* None, a function that returns its result, or one that raises.
recover_from_error(workflow_id, stage, recovery) ==
    LET checkpoint_data == loaded(checkpoints, workflow_id, stage)
        from_checkpoint == truthy(checkpoint_data)
        called == ~from_checkpoint /\ recovery # None
        result == IF from_checkpoint THEN checkpoint_data
                  ELSE IF recovery = "returns" THEN {{"recovered"}}
                  ELSE {}
    IN  /\ (called /\ recovery = "raises") => error_count(error_history) < MaxErrorHistory
        /\ ckpt_ret' = [op |-> "recover_from_error", workflow_id |-> workflow_id,
                        stage |-> stage, result |-> result,
                        seq |-> 1 - ckpt_ret.seq, recovery_called |-> called]
        /\ error_history' = IF called /\ recovery = "raises"
                            THEN record_error(error_history, workflow_id, stage)
                            ELSE error_history
        /\ UNCHANGED <<checkpoints, notCkpt>>

CkptNext ==
    \/ \E w \in CkptWorkflows, s \in CkptStages, d \in CkptData :
            save_checkpoint(w, s, d)
    \/ \E w \in CkptWorkflows, s \in CkptStages : load_checkpoint(w, s)
    \/ \E w \in CkptWorkflows, s \in CkptStages : rollback_to_checkpoint(w, s)
    \/ \E w \in CkptWorkflows : clear_checkpoints(w)

\* ErrorRecoveryManager over its checkpoint_manager.
RecoveryNext ==
    \/ \E w \in CkptWorkflows, s \in CkptStages, d \in CkptData :
            save_checkpoint(w, s, d)
    \/ \E w \in CkptWorkflows, s \in CkptStages, f \in RecoveryFuncs :
            recover_from_error(w, s, f)

(***************************************************************************)
(* MetricsCollector: the ring of metrics and get_health_metrics.  A metric *)
(* is kept with its name, its status tag (None when it has none) and its   *)
(* timestamp in minutes; isoformat timestamps of one clock compare as the  *)
(* times do.  health is the result of get_health_metrics when that call    *)
(* was the last operation, and {} otherwise.                               *)
(***************************************************************************)
HealthWindowMinutes == 5
LowErrorRate == 5
UnhealthyErrorRate == 20
HealthTick == 5
MetricKinds ==
    {[name |-> "agent.operation", status |-> "success"],
     [name |-> "agent.operation", status |-> "error"],
     [name |-> "system.error.rate", status |-> None]}

McInit ==
    /\ ring = <<>>
    /\ utcnow = 0
    /\ health = {}

\* "error" in name
name_has_error(name) == name \in {"system.error.rate", "agent.error"}

\* deque(maxlen=max_metrics).append
_add_metric(metric) ==
    IF Len(ring) < MaxMetrics THEN Append(ring, metric)
    ELSE Append(Tail(ring), metric)

record_custom_metric(kind) ==
    /\ ring' = _add_metric([name |-> kind.name, status |-> kind.status,
                            timestamp |-> utcnow])
    /\ health' = {}
    /\ UNCHANGED <<utcnow, notMc>>

McTick ==
    /\ utcnow + HealthTick <= MaxUtcNow
    /\ utcnow' = utcnow + HealthTick
    /\ health' = {}
    /\ UNCHANGED <<ring, notMc>>

\* get_metrics(since=since): the indexes of the metrics kept.
get_metrics(since) == {i \in 1..Len(ring) : ring[i].timestamp >= since}

is_error_metric(metric) ==
    name_has_error(metric.name) \/ metric.status = "error"

metrics_collecting_always(recent) == TRUE

metrics_collecting(recent) == recent > 0

\* error_rate < 5, with error_rate = errors / recent * 100, or 0 without
\* recent metrics.
low_error_rate(errors, recent) ==
    IF recent > 0 THEN errors * 100 < LowErrorRate * recent ELSE TRUE

health_status(all_healthy, errors, recent) ==
    IF all_healthy THEN "healthy"
    ELSE IF recent > 0 /\ errors * 100 > UnhealthyErrorRate * recent
         THEN "unhealthy"
         ELSE "degraded"

get_health_metrics ==
    LET five_minutes_ago == utcnow - HealthWindowMinutes
        recent_metrics == get_metrics(five_minutes_ago)
        error_metrics == {i \in recent_metrics : is_error_metric(ring[i])}
        recent == Cardinality(recent_metrics)
        errors == Cardinality(error_metrics)
        checks == [metrics_collecting |-> metrics_collecting(recent),
                   low_error_rate |-> low_error_rate(errors, recent),
                   system_responsive |-> TRUE]
        all_healthy == \A c \in DOMAIN checks : checks[c]
    IN  /\ health' = {[status |-> health_status(all_healthy, errors, recent),
                       checks |-> checks,
                       total_metrics |-> Len(ring),
                       recent_metrics |-> recent]}
        /\ UNCHANGED <<ring, utcnow, notMc>>

McNext ==
    \/ \E kind \in MetricKinds : record_custom_metric(kind)
    \/ McTick
    \/ get_health_metrics

(***************************************************************************)
(* ResourceOptimizer.optimize_prompt_length, a pure function of its        *)
(* arguments.  A string is the sequence of its characters; "N" stands for  *)
(* the newline character.  preserve_sections is None or a list of section  *)
(* names.                                                                  *)
(***************************************************************************)
PromptChars == {"a", "S", "N"}
Prompts == UNION {[1..n -> PromptChars] : n \in 0..MaxPromptLen}
MaxLengths == 0..MaxPromptLen
PreserveSections == {None, <<>>, <<<<"S">>>>, <<<<"S">>, <<"a", "a">>>>}
ParagraphBreak == <<"N", "N">>
\* The two newlines and the bracketed five-character notice of the source.
TruncationMarker == <<"N", "N", "[", "c1", "c2", "c3", "c4", "c5", "]">>

OptInit == opt_ret = [how |-> "none"]

\* str.find(sub, start) with 1-based positions: the first position >= start
\* at which sub occurs in s, 0 when there is none (Python's -1).
find(s, sub, start) ==
    LET hits == {i \in start..(Len(s) - Len(sub) + 1) :
                    SubSeq(s, i, i + Len(sub) - 1) = sub}
    IN  IF hits = {} THEN 0 ELSE CHOOSE i \in hits : \A j \in hits : i <= j

\* prompt[start:end] + "\n\n" for a section found in the prompt, "" otherwise.
section_text(prompt, section) ==
    LET start == find(prompt, section, 1)
        break == IF start = 0 THEN 0 ELSE find(prompt, ParagraphBreak, start)
        end == IF break = 0 THEN Len(prompt) + 1 ELSE break
    IN  IF start = 0 THEN <<>>
        ELSE SubSeq(prompt, start, end - 1) \o ParagraphBreak

RECURSIVE preserved_text(_, _)
preserved_text(prompt, sections) ==
    IF sections = <<>> THEN <<>>
    ELSE section_text(prompt, Head(sections))
            \o preserved_text(prompt, Tail(sections))

\* prompt[:max_length] + the truncation marker
hard_truncation(prompt, max_length) ==
    SubSeq(prompt, 1, max_length) \o TruncationMarker

optimized_prompt(prompt, max_length, preserve_sections) ==
    IF Len(prompt) <= max_length THEN [how |-> "whole", result |-> prompt]
    ELSE IF /\ preserve_sections # None
            /\ preserve_sections # <<>>
            /\ Len(preserved_text(prompt, preserve_sections)) <= max_length
         THEN [how |-> "sections",
               result |-> preserved_text(prompt, preserve_sections)]
         ELSE [how |-> "truncated",
               result |-> hard_truncation(prompt, max_length)]

optimize_prompt_length(prompt, max_length, preserve_sections) ==
    /\ opt_ret' = [prompt |-> prompt, max_length |-> max_length] @@
                  optimized_prompt(prompt, max_length, preserve_sections)
    /\ UNCHANGED notOpt

OptNext ==
    \E prompt \in Prompts, max_length \in MaxLengths,
       preserve_sections \in PreserveSections :
        optimize_prompt_length(prompt, max_length, preserve_sections)

(***************************************************************************)
(* RetryConfig.get_delay called on its own, for any attempt.  The power    *)
(* exponential_base ** attempt is a float power: Python raises             *)
(* OverflowError when its result leaves the range of a double, which for   *)
(* the base 2.0 is from the exponent 1024 on.  Below that the power is     *)
(* exact, and min(initial_delay * power, max_delay) is max_delay from the  *)
(* first exponent at which the product reaches max_delay: get_delay is     *)
(* evaluated at that exponent for every larger one.                        *)
(***************************************************************************)
FloatMaxExponent == 1024
DelayAttempts == (0..MaxAttempt) \cup {FloatMaxExponent - 1, FloatMaxExponent}

DelayInit == delay_ret = [how |-> "none"]

\* The first exponent at which initial_delay * base^e reaches max_delay.
saturating_exponent(config) ==
    CHOOSE e \in 0..30 :
        /\ config.initial_delay * Pow(ExponentialBase, e) >= config.max_delay
        /\ \A d \in 0..(e - 1) :
              config.initial_delay * Pow(ExponentialBase, d) < config.max_delay

\* self.exponential_base ** attempt raises OverflowError.
float_pow_overflows(k) == k >= FloatMaxExponent

get_delay_outcome(config, k, random) ==
    IF float_pow_overflows(k)
    THEN [how |-> "raise", exception |-> "OverflowError"]
    ELSE [how |-> "return",
          delay |-> get_delay(config, Min(k, saturating_exponent(config)),
                              random)]

get_delay_call(config, k, random) ==
    /\ delay_ret' = [config |-> config, attempt |-> k] @@
                    get_delay_outcome(config, k, random)
    /\ UNCHANGED notDelay

DelayNext ==
    \E config \in RetryConfigs, k \in DelayAttempts, random \in RandomSamples :
        get_delay_call(config, k, random)

(***************************************************************************)
(* _execute_step_with_retry seen on its own: execute_workflow is given one *)
(* or two independent steps with retry_count up to MaxRetryCount, and only *)
(* its own step loop runs.                                                 *)
(***************************************************************************)
RetryStepLists ==
    UNION {UNION {[1..n -> [id : StepIds, dependencies : {<<>>},
                            retry_count : {rc}]] : n \in {1, 2}} :
              rc \in 0..MaxRetryCount}

StepRetryNext ==
    \/ \E steps \in RetryStepLists : execute_workflow(steps)
    \/ task_start
    \/ \E o \in AttemptOutcomes : attempt_end(0, o)
    \/ sleep_end(0)
    \/ execute_workflow_return

(***************************************************************************)
(* TimeoutManager.  A call of execute_with_timeout creates the task of its *)
(* coroutine, stores it under task_id and waits for it; the caller runs    *)
(* again (timeout_resume) once the task is done, has raised, was cancelled *)
(* or the timeout has expired.  The task of call c is named c, and the     *)
(* result of its coroutine is c as well.                                   *)
(***************************************************************************)
Calls == 1 .. MaxCalls
TaskIds == {"t1", "t2"}

TmInit ==
    /\ active_tasks = [t \in {} |-> 0]
    /\ tm_pc = [c \in Calls |-> "idle"]
    /\ tm_task_id = [c \in Calls |-> "t1"]
    /\ tm_task_state = [c \in Calls |-> "none"]
    /\ tm_ret = [c \in Calls |-> [how |-> "none"]]

\* asyncio.Task.cancel on the tasks of the set: a task that is done stays so.
cancel_tasks(cs) ==
    [c \in Calls |-> IF c \in cs /\ tm_task_state[c] = "pending"
                     THEN "cancelled" ELSE tm_task_state[c]]

\* execute_with_timeout up to its await.
execute_with_timeout(c, task_id) ==
    /\ tm_pc[c] = "idle"
    /\ tm_pc' = [tm_pc EXCEPT ![c] = "waiting"]
    /\ tm_task_id' = [tm_task_id EXCEPT ![c] = task_id]
    /\ tm_task_state' = [tm_task_state EXCEPT ![c] = "pending"]
    /\ active_tasks' = With(active_tasks, task_id, c)
    /\ UNCHANGED <<tm_ret, notTm>>

\* The coroutine of the call returns, or raises an exception of its own.
coroutine_ends(c, how) ==
    /\ tm_pc[c] = "waiting"
    /\ tm_task_state[c] = "pending"
    /\ tm_task_state' = [tm_task_state EXCEPT ![c] = how]
    /\ UNCHANGED <<active_tasks, tm_pc, tm_task_id, tm_ret, notTm>>

\* The timeout of wait_for expires before the coroutine has ended: wait_for
\* cancels the task and raises asyncio.TimeoutError in the caller.
timeout_expires(c) ==
    /\ tm_pc[c] = "waiting"
    /\ tm_task_state[c] = "pending"
    /\ tm_task_state' = [tm_task_state EXCEPT ![c] = "cancelled"]
    /\ tm_pc' = [tm_pc EXCEPT ![c] = "timedout"]
    /\ UNCHANGED <<active_tasks, tm_task_id, tm_ret, notTm>>

\* The rest of execute_with_timeout, from the await to the return or raise.
timeout_resume(c) ==
    LET id == tm_task_id[c]
        tracked == id \in DOMAIN active_tasks
    IN
    /\ \/ tm_pc[c] = "timedout"
       \/ tm_pc[c] = "waiting" /\ tm_task_state[c] \in {"done", "failed", "cancelled"}
    /\ tm_pc' = [tm_pc EXCEPT ![c] = "ended"]
    /\ IF tm_pc[c] = "timedout"
       THEN /\ tm_ret' = [tm_ret EXCEPT ![c] = [how |-> "TimeoutError"]]
            /\ tm_task_state' = IF tracked THEN cancel_tasks({active_tasks[id]})
                             ELSE tm_task_state
            /\ active_tasks' = Without(active_tasks, id)
       ELSE IF tm_task_state[c] = "cancelled"
       THEN /\ tm_ret' = [tm_ret EXCEPT ![c] = [how |-> "CancelledError"]]
            /\ UNCHANGED <<active_tasks, tm_task_state>>
       ELSE IF tm_task_state[c] = "failed"
       THEN /\ tm_ret' = [tm_ret EXCEPT ![c] = [how |-> "raised"]]
            /\ active_tasks' = Without(active_tasks, id)
            /\ UNCHANGED tm_task_state
       ELSE /\ tm_ret' = [tm_ret EXCEPT ![c] =
                             IF tracked THEN [how |-> "returned", result |-> c]
                             ELSE [how |-> "KeyError"]]
            /\ active_tasks' = Without(active_tasks, id)
            /\ UNCHANGED tm_task_state
    /\ UNCHANGED <<tm_task_id, notTm>>

\* TimeoutManager.cancel_task
timeout_cancel_task(task_id) ==
    /\ IF task_id \in DOMAIN active_tasks
       THEN /\ tm_task_state' = cancel_tasks({active_tasks[task_id]})
            /\ active_tasks' = Without(active_tasks, task_id)
       ELSE UNCHANGED <<active_tasks, tm_task_state>>
    /\ UNCHANGED <<tm_pc, tm_task_id, tm_ret, notTm>>

TmNext ==
    \/ \E c \in Calls, t \in TaskIds : execute_with_timeout(c, t)
    \/ \E c \in Calls, how \in {"done", "failed"} : coroutine_ends(c, how)
    \/ \E c \in Calls : timeout_expires(c)
    \/ \E c \in Calls : timeout_resume(c)
    \/ \E t \in TaskIds : timeout_cancel_task(t)

(***************************************************************************)
(* ContextPreservation.  A context is a dict, of which the entry under     *)
(* 'previous_segments' is kept: no entry ({}) or a list ({id}).  A list is *)
(* an object: list_heap holds the contents of every list that a context on *)
(* the stack or the context last returned refers to, so that two dicts     *)
(* that are shallow copies of each other share their list.  The segment of *)
(* the n-th call of preserve_across_segments is written n.                 *)
(***************************************************************************)
NoList == [previous_segments |-> {}]
ListIds == 1 .. (MaxSegments + 2)

CtxInit ==
    /\ context_stack = <<>>
    /\ list_heap = [i \in {} |-> <<>>]
    /\ segment_calls = 0
    /\ ctx_ret = [op |-> "none", context |-> NoList]

\* The lists the stack and the returned context refer to.
referenced(stack, returned) ==
    UNION ({stack[i].previous_segments : i \in DOMAIN stack}
              \cup {returned.previous_segments})

\* The heap without the lists nothing refers to any more.
collected(heap, stack, returned) ==
    [i \in DOMAIN heap \cap referenced(stack, returned) |-> heap[i]]

\* A list object that does not exist yet.
new_list(heap) == CHOOSE i \in ListIds \ DOMAIN heap :
                      \A j \in ListIds \ DOMAIN heap : i <= j

\* push_context: the copy that is pushed shares the list of the argument.
push_context(context) ==
    /\ Len(context_stack) < MaxStackLen
    /\ context_stack' =
          Append(IF Len(context_stack) >= max_context_depth
                 THEN Tail(context_stack) ELSE context_stack, context)
    /\ ctx_ret' = [op |-> "push_context", context |-> ctx_ret.context]
    /\ list_heap' = collected(list_heap, context_stack', ctx_ret'.context)
    /\ UNCHANGED <<segment_calls, notCtx>>

pop_context ==
    /\ IF context_stack # <<>>
       THEN /\ context_stack' = SubSeq(context_stack, 1, Len(context_stack) - 1)
            /\ ctx_ret' = [op |-> "pop_context",
                           context |-> context_stack[Len(context_stack)]]
       ELSE /\ UNCHANGED context_stack
            /\ ctx_ret' = [op |-> "pop_context", context |-> NoList]
    /\ list_heap' = collected(list_heap, context_stack', ctx_ret'.context)
    /\ UNCHANGED <<segment_calls, notCtx>>

\* get_current_context: a shallow copy of the top of the stack, or {}.
get_current_context ==
    IF context_stack # <<>> THEN context_stack[Len(context_stack)] ELSE NoList

\* The list a context holds after the limit to the last five segments.
limited(segments) ==
    IF Len(segments) > 5
    THEN SubSeq(segments, Len(segments) - 4, Len(segments))
    ELSE segments

preserve_across_segments ==
    LET current_context == get_current_context
        segment_info == segment_calls + 1
        fresh == new_list(list_heap)
        had_key == current_context.previous_segments # {}
        id == IF had_key THEN CHOOSE i \in current_context.previous_segments : TRUE
              ELSE fresh
        appended == Append(IF had_key THEN list_heap[id] ELSE <<>>, segment_info)
        heap1 == With(list_heap, id, appended)
        sliced == Len(appended) > 5
        out == IF sliced THEN new_list(heap1) ELSE id
        heap2 == IF sliced THEN With(heap1, out, limited(appended)) ELSE heap1
    IN  /\ segment_calls < MaxSegments
        /\ segment_calls' = segment_info
        /\ ctx_ret' = [op |-> "preserve_across_segments",
                       context |-> [previous_segments |-> {out}]]
        /\ list_heap' = collected(heap2, context_stack, ctx_ret'.context)
        /\ UNCHANGED <<context_stack, notCtx>>

CtxNext ==
    \/ \E context \in {NoList, ctx_ret.context} : push_context(context)
    \/ pop_context
    \/ preserve_across_segments

(***************************************************************************)
(* SystemMonitor: the registry of active agents and tenants.  An agent id  *)
(* is a string, modelled as the sequence of its parts between underscores: *)
(* "agent1_tenantA" is <<"agent1", "tenantA">>.  agent_tenants is not a    *)
(* field of the monitor: it records the tenants an active agent has been   *)
(* registered for since it became active.                                  *)
(***************************************************************************)
MonitorAgentIds == {<<"agent1">>, <<"agent2">>,
                    <<"agent1", "tenantA">>, <<"agent2", "tenantB">>}

ActivityInit ==
    /\ active_agents = {}
    /\ active_tenants = {}
    /\ agent_performance = [a \in {} |-> None]
    /\ agent_tenants = {}

\* aid.endswith(f"_{tenant_id}"), for a tenant_id without underscore.
endswith_tenant(aid, tenant_id) ==
    Len(aid) >= 2 /\ aid[Len(aid)] = tenant_id

register_agent_activity(agent_id, tenant_id) ==
    /\ active_agents' = active_agents \cup {agent_id}
    /\ active_tenants' = active_tenants \cup {tenant_id}
    /\ agent_performance' =
          IF agent_id \notin DOMAIN agent_performance
          THEN With(agent_performance, agent_id, tenant_id)
          ELSE agent_performance
    /\ agent_tenants' = agent_tenants \cup {<<agent_id, tenant_id>>}
    /\ UNCHANGED notActivity

unregister_agent_activity(agent_id, tenant_id) ==
    /\ active_agents' = active_agents \ {agent_id}
    /\ active_tenants' =
          IF ~\E aid \in active_agents' : endswith_tenant(aid, tenant_id)
          THEN active_tenants \ {tenant_id}
          ELSE active_tenants
    /\ agent_tenants' = {p \in agent_tenants : p[1] # agent_id}
    /\ UNCHANGED <<agent_performance, notActivity>>

ActivityNext ==
    \/ \E a \in MonitorAgentIds, t \in Tenants : register_agent_activity(a, t)
    \/ \E a \in MonitorAgentIds, t \in Tenants : unregister_agent_activity(a, t)

(***************************************************************************)
(* Specifications: every component starts in its constructed state; each   *)
(* specification runs one component.                                       *)
(***************************************************************************)
Init ==
    /\ RepoInit
    /\ MgrInit
    /\ MemInit
    /\ RetryInit
    /\ EngInit
    /\ SyncInit
    /\ CacheInit
    /\ WithCacheInit
    /\ ParInit
    /\ MonInit
    /\ WsInit
    /\ UiInit
    /\ CgInit
    /\ CkptInit
    /\ McInit
    /\ OptInit
    /\ DelayInit
    /\ EngRetryInit
    /\ TmInit
    /\ CtxInit
    /\ ActivityInit

SpecRepository == Init /\ [][RepoNext]_vars

SpecManager == Init /\ [][MgrNext]_vars

SpecMemory == Init /\ [][MemNext]_vars

SpecIsolation == Init /\ [][IsolationNext]_vars

SpecFeedback == Init /\ [][FeedbackNext]_vars

SpecConfidence == Init /\ [][ConfidenceNext]_vars

SpecPreference == Init /\ [][PreferenceNext]_vars

SpecRetry == Init /\ [][RetryNext]_vars

SpecEngine == Init /\ [][EngNext]_vars

SpecSync == Init /\ [][SyncNext]_vars

SpecCache == Init /\ [][CacheNext]_vars

SpecWithCache == Init /\ [][WithCacheNext]_vars

\* The event loop runs every coroutine that can run, and a supplied task ends.
SpecMonitoring == Init /\ [][MonNext]_vars

SpecWsAgent == Init /\ [][WsNext]_vars

SpecUserInput == Init /\ [][UiNext]_vars /\ WF_vars(UiProgress)

SpecGeneration == Init /\ [][CgNext]_vars

SpecCheckpoint == Init /\ [][CkptNext]_vars

SpecHealth == Init /\ [][McNext]_vars

SpecOptimizer == Init /\ [][OptNext]_vars

SpecDelay == Init /\ [][DelayNext]_vars

SpecStepRetry == Init /\ [][StepRetryNext]_vars

SpecTimeout == Init /\ [][TmNext]_vars

SpecRecovery == Init /\ [][RecoveryNext]_vars

SpecContext == Init /\ [][CtxNext]_vars

SpecActivity == Init /\ [][ActivityNext]_vars

SpecParallel == Init /\ [][ParNext]_vars /\ WF_vars(ParProgress)

(***************************************************************************)
(* C1: a workflow row created under tenant A is returned by get_workflow   *)
(* under tenant A and is absent under every tenant B # A, after any        *)
(* sequence of create / update / checkpoint / mark-failed operations by    *)
(* any tenants.                                                            *)
(***************************************************************************)
C1_TenantIsolation ==
    /\ \A w \in DOMAIN created_by : \A t \in Tenants :
          IF t = created_by[w]
          THEN \E r \in workflow_states :
                  r.workflow_id = w /\ get_workflow(t, w) = {r}
          ELSE get_workflow(t, w) = {}
    /\ (repo_ret.op = "get_workflow" /\ repo_ret.workflow_id \in DOMAIN created_by)
          => IF repo_ret.tenant = created_by[repo_ret.workflow_id]
             THEN \E r \in workflow_states :
                     r.workflow_id = repo_ret.workflow_id /\ repo_ret.result = {r}
             ELSE repo_ret.result = {}

\* Tenant B asks for tenant A's failed, checkpointed workflow and gets nothing.
C1_Witness ==
    /\ repo_ret.op = "get_workflow"
    /\ repo_ret.workflow_id \in DOMAIN created_by
    /\ repo_ret.tenant # created_by[repo_ret.workflow_id]
    /\ repo_ret.result = {}
    /\ \E r \in workflow_states :
          /\ r.workflow_id = repo_ret.workflow_id
          /\ r.status = "failed"
          /\ workflow_checkpoints[r.workflow_id] > 0

(***************************************************************************)
(* C2: an exception of any type raised by a stage of _execute_workflow     *)
(* does not leave the background task; the runtime record ends failed /    *)
(* error / progress 0.0 with the exception's message, and is never left    *)
(* 'running' once the task has ended.  (A later cancel_workflow may turn   *)
(* the status into 'cancelled'.)                                           *)
(***************************************************************************)
C2_AnyExceptionMarksFailed ==
    \A w \in RunIds :
        /\ task_pc[w] # "raised"
        /\ task_exc[w].kind # "none" =>
              /\ task_pc[w] = "done"
              /\ workflows[w].status \in {"failed", "cancelled"}
              /\ workflows[w].current_step = "error"
              /\ workflows[w].progress = 0
              /\ workflows[w].error = task_exc[w].msg
        /\ task_pc[w] \in {"done", "raised"} => workflows[w].status # "running"

(***************************************************************************)
(* C3: when all four stage agents return, the progress of the record       *)
(* takes exactly the values 0.25, 0.5, 0.75, 0.9, 1.0 in this order after  *)
(* the initial 0.0, stage k+1 starts only after stage k has returned, and  *)
(* the task's last write leaves the status 'completed'.                    *)
(***************************************************************************)
IsPrefix(s, t) == Len(s) <= Len(t) /\ SubSeq(t, 1, Len(s)) = s

FullProgress == <<0, 25, 50, 75, 90, 100>>

FullStageLog == <<(<<"start", 1>>), (<<"return", 1>>), (<<"start", 2>>), (<<"return", 2>>),
                  (<<"start", 3>>), (<<"return", 3>>), (<<"start", 4>>), (<<"return", 4>>)>>

C3_WhileNoFailure ==
    \A w \in RunIds :
        task_exc[w].kind = "none" =>
            /\ IsPrefix(progress_log[w], FullProgress)
            /\ IsPrefix(stage_log[w], FullStageLog)
            /\ w \in DOMAIN workflows => get_workflow_status(w) # {} /\
                   workflows[w].progress = progress_log[w][Len(progress_log[w])]
            /\ task_pc[w] = "done" =>
                   /\ progress_log[w] = FullProgress
                   /\ stage_log[w] = FullStageLog

C3_FinalWrite ==
    \A w \in RunIds :
        (task_pc[w] = "await" /\ task_pc'[w] = "done" /\ task_exc'[w].kind = "none")
            => /\ workflows'[w].status = "completed"
               /\ workflows'[w].progress = 100

C3_ProgressSequence == [](C3_WhileNoFailure) /\ [][C3_FinalWrite]_vars

\* All four stages returned and the record reads completed at 100 percent.
C3_Witness ==
    \E w \in RunIds :
        /\ task_pc[w] = "done"
        /\ task_exc[w].kind = "none"
        /\ stage_log[w] = FullStageLog
        /\ workflows[w].status = "completed"
        /\ progress_log[w] = FullProgress

(***************************************************************************)
(* C4: after store_user_preference has returned True, a get_user_-         *)
(* preferences call of the same tenant and user whose filters match the    *)
(* preference returns the value written, also when the same query was      *)
(* cached less than 15 minutes earlier: what a read returns is what the    *)
(* matching rows hold.                                                     *)
(***************************************************************************)
C4_ReadSeesLastWrite ==
    mem_ret.op = "get_user_preferences" =>
        \A r \in get_preferences(mem_ret.tenant_id, mem_ret.user_id, mem_ret.category,
                                  mem_ret.scope, mem_ret.scope_id) :
            LET ck == <<r.preference_category, r.preference_key>>
            IN  /\ ck \in DOMAIN mem_ret.result
                /\ mem_ret.result[ck].value = r.preference_value

(***************************************************************************)
(* C5: in one call of a with_retry wrapper the wrapped function is         *)
(* invoked at most max_retries+1 times, never again after its first        *)
(* success (whose result is returned), and attempt k+1 is preceded by a    *)
(* wait of get_delay(k) that follows failed attempt k < max_retries.       *)
(***************************************************************************)
C5_RetryBound ==
    /\ Len(func_calls) <= retry_config.max_retries + 1
    /\ \A i \in 1..Len(func_calls) :
          func_calls[i] = "ok" =>
              /\ i = Len(func_calls)
              /\ retry_pc = "returned"
              /\ retry_ret = [how |-> "return",
                              value |-> [kind |-> "result", of |-> "func", n |-> i - 1]]
    /\ Len(func_calls) <= Len(sleeps) + 1
    /\ \A i \in 1..Len(sleeps) :
          /\ i - 1 < retry_config.max_retries
          /\ func_calls[i] = "Exception"
          /\ sleeps[i] \in {get_delay(retry_config, i - 1, r) : r \in RandomSamples}

\* The third attempt succeeded after two failures and two waits.
C5_Witness ==
    /\ retry_pc = "returned"
    /\ func_calls = <<"Exception", "Exception", "ok">>
    /\ Len(sleeps) = 2
    /\ sleeps[2] = 2 * sleeps[1]

(***************************************************************************)
(* C6: when all max_retries+1 attempts have failed, a supplied fallback is *)
(* invoked exactly once, only after the last attempt has failed, and its   *)
(* result is returned; without a fallback the last attempt's exception is  *)
(* re-raised.  The fallback is never invoked when some attempt succeeded.  *)
(***************************************************************************)
AllAttemptsFailed ==
    /\ retry_pc # "idle"
    /\ Len(func_calls) = retry_config.max_retries + 1
    /\ \A i \in 1..Len(func_calls) : func_calls[i] = "Exception"

LastAttemptException ==
    [kind |-> "Exception", of |-> "func", n |-> retry_config.max_retries]

C6_FallbackOnlyAfterAllFailed ==
    /\ fallback_calls # <<>> => has_fallback /\ AllAttemptsFailed
    /\ (\E i \in 1..Len(func_calls) : func_calls[i] = "ok") => fallback_calls = <<>>
    /\ Len(fallback_calls) <= 1

\* The claim as stated: the fallback's result is what the call returns.
C6_FallbackResultReturned ==
    /\ C6_FallbackOnlyAfterAllFailed
    /\ (AllAttemptsFailed /\ retry_pc \in {"returned", "raised"}) =>
          IF has_fallback
          THEN /\ Len(fallback_calls) = 1
               /\ retry_ret = [how |-> "return",
                               value |-> [kind |-> "result", of |-> "fallback", n |-> 0]]
          ELSE retry_ret = [how |-> "raise", value |-> LastAttemptException]

\* Amended: the fallback's result is returned when the fallback returns; when
\* the fallback raises an Exception, the last attempt's exception is re-raised.
C6_FallbackOrLastException ==
    /\ C6_FallbackOnlyAfterAllFailed
    /\ (AllAttemptsFailed /\ retry_pc \in {"returned", "raised"}) =>
          IF has_fallback
          THEN /\ Len(fallback_calls) = 1
               /\ fallback_calls[1] = "ok" =>
                     retry_ret = [how |-> "return",
                                  value |-> [kind |-> "result", of |-> "fallback", n |-> 0]]
               /\ fallback_calls[1] = "Exception" =>
                     retry_ret = [how |-> "raise", value |-> LastAttemptException]
          ELSE retry_ret = [how |-> "raise", value |-> LastAttemptException]

\* Three attempts failed and the fallback, called once, raised as well.
C6_Witness ==
    /\ AllAttemptsFailed
    /\ retry_config.max_retries = 2
    /\ has_fallback
    /\ fallback_calls = <<"Exception">>
    /\ retry_pc = "raised"

(***************************************************************************)
(* Step-graph engine claims                                                *)
(***************************************************************************)
LoopEvents(l, log) == {e \in log : e.loop = l}

\* C7: a step's agent is started only when every id in the step's
\* dependencies is in steps_completed, and a step loop never starts a step
\* whose id is already in steps_completed or steps_failed.
C7_OnlyExecutableStepsRun ==
    \A e \in attempt_log :
        /\ e.deps_done
        /\ e.attempt = 0 => ~e.done_before

\* Listed before the step it depends on, step b has run after it.
C7_Witness ==
    /\ Len(exec_steps) = 2
    /\ exec_steps[1].id = "b" /\ exec_steps[1].dependencies = <<"a">>
    /\ exec_steps[2].id = "a" /\ exec_steps[2].dependencies = <<>>
    /\ wf.steps_completed = <<"a", "b">>
    /\ wf.status = "completed"
    /\ \E e \in attempt_log : e.step = "b" /\ e.loop = 0

C8_FailureStep ==
    \A l \in Loops :
        /\ (loop_pc[l] = "attempt" /\ loop_pc'[l] = "sleep") =>
               loop_attempt[l] < loop_cur[l].retry_count
        /\ (loop_pc[l] = "attempt" /\ loop_pc'[l] = "raised") =>
               /\ loop_attempt[l] = loop_cur[l].retry_count
               /\ loop_cur[l].id \in Range(wf'.steps_failed)
               /\ ws_stored'
               /\ wf'.status = "failed"
               /\ wf'.error_message = loop_exc'[l].msg
        /\ loop_pc[l] = "raised" =>
               /\ loop_pc'[l] = "raised"
               /\ LoopEvents(l, attempt_log') = LoopEvents(l, attempt_log)

C8_Return ==
    (exec_pc = "returned" /\ loop_pc[0] = "raised") => ~exec_ret.success

\* C8: a step's attempt that fails is retried while retries are left; when
\* none is left the step id is added to steps_failed and the persisted status
\* becomes FAILED with the error message, the step loop starts no further
\* step, and execute_workflow returns success=false.
C8_FirstFailureFailsWorkflow == [](C8_Return) /\ [][C8_FailureStep]_vars

\* The first of two independent steps has failed after a retry; the second
\* one was never started, and execute_workflow has returned.
C8_Witness ==
    /\ exec_pc = "returned" /\ ~exec_ret.success
    /\ loop_pc[0] = "raised" /\ loop_attempt[0] = 1
    /\ Len(exec_steps) = 2
    /\ exec_steps[1].id = "a" /\ exec_steps[2].id = "b"
    /\ exec_steps[2].dependencies = <<>>
    /\ wf.steps_failed = <<"a">> /\ wf.status = "failed"
    /\ wf.error_message = "step error"
    /\ ~\E e \in attempt_log : e.step = "b"

\* Distinct ids, and every dependency is a step listed earlier.
WellFormed(steps) ==
    \A i \in 1..Len(steps) :
        /\ \A j \in 1..Len(steps) : steps[i].id = steps[j].id => i = j
        /\ \A d \in Range(steps[i].dependencies) :
               \E j \in 1..(i - 1) : steps[j].id = d

C9_ResumeEnds ==
    \A l \in Loops \ {0} :
        (/\ WellFormed(exec_steps)
         /\ loop_pc[0] \in {"cancelled", "raised"}
         /\ loop_pc[l] # "finished" /\ loop_pc'[l] = "finished"
         /\ wf'.status = "completed") =>
            \A i \in 1..Len(exec_steps) :
                exec_steps[i].id \in Range(wf'.steps_completed)

\* C9: when resume_workflow, applied to a workflow that execute_workflow
\* started and whose step loop was interrupted, marks the workflow COMPLETED,
\* every step of the list the workflow was started with is in
\* steps_completed.
C9_ResumeRunsRemainingSteps == [][C9_ResumeEnds]_vars

C10_TimeoutStep ==
    /\ (exec_pc = "waiting" /\ exec_pc' = "timed_out") =>
           loop_pc'[0] = "cancelled"
    /\ exec_pc = "timed_out" =>
           /\ loop_pc'[0] = "cancelled"
           /\ LoopEvents(0, attempt_log') = LoopEvents(0, attempt_log)
           /\ exec_pc' # "timed_out" =>
                  /\ exec_pc' = "returned"
                  /\ ~exec_ret'.success
                  /\ ws_stored'
                  /\ wf'.status = "failed"
                  /\ wf'.error_message = TimeoutMessage
    /\ (exec_pc = "returned" /\ loop_pc[0] = "cancelled") =>
           /\ loop_pc'[0] = "cancelled"
           /\ LoopEvents(0, attempt_log') = LoopEvents(0, attempt_log)

\* C10: when the overall limit of wait_for elapses before the step loop has
\* finished, the task is cancelled and starts no step afterwards, the
\* persisted status becomes FAILED with the timeout message, and
\* execute_workflow returns success=false.
C10_WorkflowTimeout == [][C10_TimeoutStep]_vars

\* The limit elapsed while the first of two steps was running.
C10_Witness ==
    /\ exec_pc = "returned" /\ ~exec_ret.success
    /\ exec_ret.error = TimeoutMessage
    /\ loop_pc[0] = "cancelled" /\ loop_cur[0].id = "a"
    /\ Len(exec_steps) = 2 /\ exec_steps[2].id = "b"
    /\ wf.status = "failed" /\ wf.error_message = TimeoutMessage
    /\ wf.steps_completed = <<>>
    /\ ~\E e \in attempt_log : e.step = "b"

\* A step of cancel_workflow(w) that flips the status: the other fields of the
\* record, the other records and the pipeline task are as before.
C19_CancelStep ==
    \A w \in DOMAIN workflows :
        (w \in DOMAIN workflows' /\ workflows'[w].status = "cancelled"
             /\ workflows[w].status # "cancelled") =>
            /\ workflows' = [workflows EXCEPT ![w].status = "cancelled"]
            /\ task_pc' = task_pc
            /\ task_stage' = task_stage
            /\ stage_log' = stage_log
            /\ task_exc' = task_exc
            /\ group_chats' = group_chats

\* After a cancel the task that awaits stage k goes on where it was: when the
\* stage's agent returns, stage k+1 is started (after stage 4, the task ends
\* with the record completed).
C19_TaskStep ==
    \A w \in RunIds :
        (cancelled_at[w] # {} /\ task_pc[w] = "await" /\ stage_log'[w] # stage_log[w]
             /\ task_exc'[w] = task_exc[w]) =>
            LET k == task_stage[w] IN
            IF k < NumStages
            THEN /\ stage_log'[w] = stage_log[w] \o <<(<<"return", k>>), (<<"start", k + 1>>)>>
                 /\ task_pc'[w] = "await"
                 /\ workflows'[w].current_step = StageSteps[k + 1]
            ELSE /\ stage_log'[w] = Append(stage_log[w], <<"return", k>>)
                 /\ task_pc'[w] = "done"
                 /\ workflows'[w].status = "completed"

\* The task is never cancelled.
C19_TaskAlive ==
    \A w \in RunIds : task_pc[w] \in {"none", "created", "await", "done", "raised"}

\* C19: cancel_workflow flips only the status field of the workflow's record
\* to "cancelled"; the background pipeline task is not cancelled or
\* interrupted and goes on to run its remaining stages.
C19_CancelFlipsStatusOnly ==
    /\ [][C19_CancelStep]_vars
    /\ [][C19_TaskStep]_vars
    /\ [](C19_TaskAlive)

\* cancel_workflow was called while the task was in stage 1, and the task
\* has run all four stages to the end.
C19_Witness ==
    \E w \in RunIds :
        /\ cancelled_at[w] = {1}
        /\ task_pc[w] = "done"
        /\ stage_log[w] = FullStageLog
        /\ workflows[w].status = "completed"

(***************************************************************************)
(* Memory claims                                                           *)
(***************************************************************************)
\* C11: what get_memory or get_user_preferences returns under a context of
\* tenant B was stored under a context of tenant B, be it read from the
\* database or from the cache, for any interleaving of the stores and reads
\* of two tenants that use the same user ids and keys.
C11_MemoryTenantIsolation ==
    /\ mem_ret.op = "get_memory" =>
           \A m \in mem_ret.result :
               /\ m.tenant_id = mem_ret.tenant_id
               /\ m.memory_data \in OwnValues(mem_ret.tenant_id)
    /\ mem_ret.op = "get_user_preferences" =>
           \A ck \in DOMAIN mem_ret.result :
               mem_ret.result[ck].value \in OwnValues(mem_ret.tenant_id)

\* Both tenants hold a memory and a preference under the same user id and
\* keys, and tenant B's read is answered from the cache.
C11_Witness ==
    /\ \E a, b \in user_memories :
           /\ a.tenant_id = "tenantA" /\ b.tenant_id = "tenantB"
           /\ a.user_id = b.user_id /\ a.memory_key = b.memory_key
    /\ \E a, b \in user_preferences :
           /\ a.tenant_id = "tenantA" /\ b.tenant_id = "tenantB"
           /\ a.user_id = b.user_id /\ a.preference_key = b.preference_key
    /\ preferences_cache_key("tenantA", "u1", "writing_style", None, None)
           \in DOMAIN memory_cache
    /\ mem_ret.op = "get_user_preferences"
    /\ mem_ret.tenant_id = "tenantB"
    /\ mem_ret.from_cache
    /\ DOMAIN mem_ret.result # {}

\* C16: what get_rejection_patterns returns includes every negative feedback
\* recorded so far for the same tenant and user that matches the filters of
\* the call, also when the same query was cached less than 15 minutes before.
C16_RejectionsIncludeFeedback ==
    mem_ret.op = "get_rejection_patterns" =>
        \A f \in user_feedbacks :
            (/\ f.tenant_id = mem_ret.tenant_id
             /\ f.user_id = mem_ret.user_id
             /\ is_negative(f.feedback_value)
             /\ (mem_ret.content_type # None => f.content_type = mem_ret.content_type)
             /\ (mem_ret.agent_name # None => f.agent_name = mem_ret.agent_name))
            => f \in mem_ret.result

C17_Range == \A m \in user_memories : m.confidence_score \in 0..10

\* The step stores a feedback row: the confidence of its memory (1.0 for a
\* memory the call creates) moves by one tenth, up or down, within 0..10.
C17_FeedbackStep ==
    \A f \in user_feedbacks' \ user_feedbacks :
        LET old == {m \in user_memories : m.id = f.memory_id}
            before == IF old = {} THEN DefaultConfidence
                      ELSE (CHOOSE m \in old : TRUE).confidence_score
            after == (CHOOSE m \in user_memories' : m.id = f.memory_id).confidence_score
        IN  /\ is_positive(f.feedback_value) =>
                   after = (IF before = 10 THEN 10 ELSE before + 1)
            /\ is_negative(f.feedback_value) =>
                   after = (IF before = 0 THEN 0 ELSE before - 1)
            /\ (~is_positive(f.feedback_value) /\ ~is_negative(f.feedback_value)) =>
                   after = before
            /\ \A m \in user_memories : m.id # f.memory_id => m \in user_memories'

\* C17: a store_feedback call moves the confidence_score of its memory by
\* +0.1 for a positive feedback, by -0.1 for a negative one and not at all
\* otherwise, saturating at 0 and 1; the score always lies in [0, 1].
C17_ConfidenceNudge == [](C17_Range) /\ [][C17_FeedbackStep]_vars

\* Two negative feedbacks were stored for one memory that stands at 0: the
\* score has saturated.
C17_Witness ==
    \E m \in user_memories :
        /\ m.confidence_score = 0
        /\ Cardinality({f \in user_feedbacks :
                           f.memory_id = m.id /\ is_negative(f.feedback_value)}) = 2

C18_Unique ==
    \A r1, r2 \in user_preferences :
        (r1.memory_id = r2.memory_id /\ r1.preference_key = r2.preference_key)
            => r1 = r2

\* A store_preference call leaves the row of its (memory_id, preference_key)
\* with the new value: the existing row updated, or else one new row; the
\* other rows stay.
C18_StoreStep ==
    (mem_ret' # mem_ret /\ mem_ret'.op = "store_preference") =>
        LET r == mem_ret'.result
            old == {x \in user_preferences :
                       x.memory_id = r.memory_id /\ x.preference_key = r.preference_key}
        IN  /\ r \in user_preferences'
            /\ r.preference_key = mem_ret'.key
            /\ r.preference_value = mem_ret'.value
            /\ \A x \in user_preferences \ old : x \in user_preferences'
            /\ IF old # {}
               THEN /\ \A x \in old : x.id = r.id
                    /\ Cardinality(user_preferences') = Cardinality(user_preferences)
               ELSE Cardinality(user_preferences') = Cardinality(user_preferences) + 1

\* A read that follows a store and whose filters admit what was stored
\* returns the stored value for it, and no other value.
C18_ReadStep ==
    (/\ mem_ret.op = "store_preference"
     /\ mem_ret'.op = "get_preferences"
     /\ mem_ret'.tenant_id = mem_ret.tenant_id
     /\ mem_ret'.user_id = mem_ret.user_id
     /\ mem_ret'.category \in {None, mem_ret.category}
     /\ mem_ret'.scope \in {None, mem_ret.scope}
     /\ mem_ret'.scope_id \in {None, mem_ret.scope_id}) =>
        LET same == {r \in mem_ret'.result :
                        /\ r.preference_category = mem_ret.category
                        /\ r.preference_key = mem_ret.key
                        /\ r.scope = mem_ret.scope
                        /\ r.scope_identifier = mem_ret.scope_id}
        IN  /\ same # {}
            /\ \A r \in same : r.preference_value = mem_ret.value

C12_SyncTenantIsolation ==
    (/\ sync_ret.op \in {"agent_update", "workflow_update", "progress_update",
                         "status", "unregister_workflow"}
     /\ sync_ret.owner \in Tenants
     /\ sync_ret.owner # sync_ret.caller) =>
        sync_ret.code \in {403, 404}

(***************************************************************************)
(* Performance-utility claims                                              *)
(***************************************************************************)
\* The TTL a key was stored with: the ttl argument of set, or the default.
StoredTtl(entry) ==
    IF entry.requested = {} THEN DefaultTtl ELSE CHOOSE n \in entry.requested : TRUE

C13_GetStep ==
    \A k \in DOMAIN cache :
        (cache_ret' # cache_ret /\ cache_ret'.op = "get" /\ cache_ret'.key = k) =>
            /\ clock - cache[k].created_at < StoredTtl(cache[k]) =>
                   cache_ret'.result = cache[k].value
            /\ clock - cache[k].created_at > StoredTtl(cache[k]) =>
                   /\ cache_ret'.result = None
                   /\ k \notin DOMAIN cache'
                   /\ total_entries(cache') = total_entries(cache) - 1

\* C13: a get of a key stored with a TTL of t seconds (the ttl argument of
\* set, or the default) returns the stored value when less than t seconds
\* have passed since the set; when more than t seconds have passed it returns
\* None and removes the entry, which total_entries no longer counts.
C13_CacheTtl == [][C13_GetStep]_vars

\* The TTL of the decorator: its ttl argument, or the default.
DecoratorTtl == IF wc_ttl = {} THEN DefaultTtl ELSE CHOOSE n \in wc_ttl : TRUE

\* A call with arguments a has completed less than the TTL ago.
Memoized(a) ==
    \E d \in last_done[a] : clock - d.time < DecoratorTtl

C14_CallStep ==
    \A c \in Callers :
        (wc_pc[c] = "idle" /\ Memoized(wc_args'[c])) =>
            /\ wc_pc'[c] = "idle"
            /\ call_count' = call_count
            /\ wc_ret'[c] # wc_ret[c] =>
                   /\ wc_ret'[c].how = "cached"
                   /\ \E d \in last_done[wc_args'[c]] : wc_ret'[c].value = d.value

\* C14: once a call of the wrapper with arguments A has completed, a later
\* call with A made before the TTL has elapsed returns the stored result and
\* does not invoke the wrapped function, whatever the function returned.
C14_Memoizes == [][C14_CallStep]_vars

Running == {i \in DOMAIN task_state : task_state[i] = "running"}

C15_Bounded ==
    /\ par_pc # "idle" => Cardinality(Running) <= max_concurrent
    /\ \A i \in DOMAIN run_count : run_count[i] <= 1
    /\ par_pc = "returned" =>
           \A i \in DOMAIN task_state :
               run_count[i] = 1 /\ results[i] \in TaskOutcomes

\* C15: during execute_parallel(tasks, max_concurrent=n) at most n of the
\* tasks are executing at any instant, every task is eventually run, exactly
\* once, also when another task has raised, and the call returns each task's
\* result or exception.
C15_ParallelExecutor ==
    /\ [](C15_Bounded)
    /\ (par_pc = "gathering") ~> (par_pc = "returned")

\* Three tasks were run two at a time; one raised, and the others ran after it.
C15_Witness ==
    /\ par_pc = "returned"
    /\ max_concurrent = 2
    /\ Len(results) = 3
    /\ results[1] = "exception"
    /\ results[2] = "result" /\ results[3] = "result"
    /\ \A i \in 1..3 : run_count[i] = 1

(***************************************************************************)
(* Monitoring claims                                                       *)
(***************************************************************************)
C20_OnePerRule ==
    \A i, j \in DOMAIN active_alerts :
        active_alerts[i].rule_name = active_alerts[j].rule_name => i = j

\* A step that removes no active alert leaves every open alert in place.
C20_CheckStep ==
    Len(active_alerts') >= Len(active_alerts) => IsPrefix(active_alerts, active_alerts')

\* A step that removes an active alert removes the alert of one rule name and
\* leaves the alerts of the other rules as they were.
C20_ResolveStep ==
    Len(active_alerts') < Len(active_alerts) =>
        \E r \in RuleNames :
            /\ \E i \in DOMAIN active_alerts : active_alerts[i].rule_name = r
            /\ active_alerts' = SelectSeq(active_alerts, LAMBDA a : a.rule_name # r)

\* C20: across metric recordings, check_alerts and resolve_alert calls the
\* active alerts hold at most one alert per rule name; a check leaves an open
\* alert in place, and resolve_alert(name) removes the active alert of that
\* rule and of no other.
C20_AlertDedup ==
    /\ [](C20_OnePerRule)
    /\ [][C20_CheckStep]_vars
    /\ [][C20_ResolveStep]_vars

\* A check opened the alerts of two rules and a resolve_alert removed the
\* first: the other is still active.
C20_Witness ==
    /\ Len(alert_history) = 2
    /\ alert_history[1].rule_name # alert_history[2].rule_name
    /\ active_alerts = <<alert_history[2]>>

(***************************************************************************)
(* Websocket-aware agent claims                                            *)
(***************************************************************************)
Terminal == {i \in DOMAIN notifications : notifications[i].status \in {"completed", "error"}}

C21_Started ==
    ws_pc # "idle" =>
        /\ notifications # <<>>
        /\ notifications[1].status = "processing"
        /\ notifications[1].progress = 0

C21_Returned ==
    ws_pc = "returned" =>
        /\ Terminal = {Len(notifications)}
        /\ notifications[Len(notifications)].status = "completed"
        /\ notifications[Len(notifications)].progress = 100
        /\ ws_ret = process_outcome

\* execute has raised: one terminal notification, "error" with the text.
ErrorNotified ==
    /\ Terminal = {Len(notifications)}
    /\ notifications[Len(notifications)].status = "error"
    /\ notifications[Len(notifications)].message[2] = process_outcome.value.text
    /\ ws_ret = process_outcome

TimeoutElapsed == ui_wrapped \/ elapsed_seconds >= ui_timeout

C22_PollStep ==
    /\ (ui_pc = "loop" /\ ui_pc' = "sleeping") => ~TimeoutElapsed
    /\ (ui_pc = "loop" /\ ui_pc' = "done" /\ ui_ret' # {}) => ~TimeoutElapsed
    /\ poll_interval <= poll_interval'
    /\ poll_interval' <= Ticks(MaxPollInterval)

C22_Done ==
    ui_pc = "done" =>
        \/ ui_ret # {} /\ ui_status = "processing"
        \/ ui_ret = {} /\ ui_status = "error" /\ TimeoutElapsed

\* C22: request_user_input returns the user's response when a poll made
\* before the timeout finds one; no poll is made once the timeout has
\* elapsed, the intervals start at 1 s, never decrease and never exceed 5 s,
\* a timed-out call reports "error" and returns no value; the call always
\* terminates.
C22_UserInput ==
    /\ [][C22_PollStep]_vars
    /\ [](C22_Done)
    /\ [](ui_pc = "idle" => poll_interval = Ticks(InitialPollInterval))
    /\ (ui_pc = "loop") ~> (ui_pc = "done")

(***************************************************************************)
(* C23: the collaborative generation loop performs at most max_iterations  *)
(* verification rounds, refines nothing after a round whose verification   *)
(* passes the acceptance gate (overall_score >= 7.0 and coverage_rate >=   *)
(* 0.8), and reports an 'iterations' value equal to the number of          *)
(* verification rounds performed.                                          *)
(***************************************************************************)
C23_RefineStep == cg_refinements' # cg_refinements => ~cg_accepted

C23_Reported ==
    cg_pc = "done" =>
        \A r \in cg_ret : r.kind = "result" /\ r.iterations = cg_rounds

C23_GenerationLoop ==
    /\ [](cg_rounds <= cg_max)
    /\ [][C23_RefineStep]_vars
    /\ [](cg_accepted <=>
            \E v \in verification : _is_content_acceptable(v))
    /\ [](C23_Reported)

(***************************************************************************)
(* C24: for a workflow with a saved checkpoint at stage S, whatever data   *)
(* was saved, rollback_to_checkpoint(workflow_id, S) returns that          *)
(* checkpoint's data, discards every checkpoint of the workflow whose      *)
(* stage name is lexicographically greater than S, and keeps all other     *)
(* checkpoints, S itself and those of other workflows included.            *)
(***************************************************************************)
C24_Saved(w, s) == w \in DOMAIN checkpoints /\ s \in DOMAIN checkpoints[w]

C24_RollbackStep ==
    LET w == ckpt_ret'.workflow_id
        S == ckpt_ret'.stage
    IN  (ckpt_ret' # ckpt_ret /\ ckpt_ret'.op = "rollback_to_checkpoint"
            /\ C24_Saved(w, S))
        => /\ ckpt_ret'.result = {checkpoints[w][S].data}
           /\ DOMAIN checkpoints' = DOMAIN checkpoints
           /\ DOMAIN checkpoints'[w] =
                 {s \in DOMAIN checkpoints[w] : ~str_greater(s, S)}
           /\ \A s \in DOMAIN checkpoints'[w] :
                 checkpoints'[w][s] = checkpoints[w][s]
           /\ \A o \in DOMAIN checkpoints \ {w} :
                 checkpoints'[o] = checkpoints[o]

C24_Rollback == [][C24_RollbackStep]_vars

(***************************************************************************)
(* C25: for any contents of the metrics ring, get_health_metrics() reports *)
(* 'unhealthy' when the error rate over the last 5 minutes is above 20%,   *)
(* and otherwise reports 'healthy' unless that error rate is at least 5%,  *)
(* which fails only the low_error_rate sub-check.  As stated it fails for  *)
(* a ring without metrics of the last 5 minutes (C25_HealthByRate); the    *)
(* amended statement, C25_HealthStatus, adds that case: the error rate is  *)
(* 0, the metrics_collecting sub-check fails and the status is 'degraded'. *)
(***************************************************************************)
C25_Recent == {i \in 1..Len(ring) : ring[i].timestamp >= utcnow - HealthWindowMinutes}

C25_Errors ==
    {i \in C25_Recent :
        ring[i].status = "error" \/ ring[i].name = "system.error.rate"}

\* The error rate (0 without recent metrics) is above, or at least, p percent.
C25_RateAbove(p) ==
    C25_Recent # {} /\ Cardinality(C25_Errors) * 100 > p * Cardinality(C25_Recent)

C25_RateAtLeast(p) ==
    C25_Recent # {} /\ Cardinality(C25_Errors) * 100 >= p * Cardinality(C25_Recent)

C25_Failed(h) == {c \in DOMAIN h.checks : ~h.checks[c]}

C26_AtMostMaxLength ==
    opt_ret.how # "none" => Len(opt_ret.result) <= opt_ret.max_length

\* The part of C26 that holds: a prompt returned whole or cut to its named
\* sections fits.
C26_SectionsFit ==
    opt_ret.how \in {"whole", "sections"} =>
        Len(opt_ret.result) <= opt_ret.max_length

(***************************************************************************)
(* C27: for every attempt >= 0, get_delay(attempt) equals                  *)
(* min(initial_delay * exponential_base^attempt, max_delay) when jitter is *)
(* disabled and lies between 0.5 and 1.0 times that value when jitter is   *)
(* enabled; in particular it never exceeds max_delay.                      *)
(***************************************************************************)
\* min(value * base^k, cap), computed without forming the power.
RECURSIVE C27_Capped(_, _, _)
C27_Capped(value, k, cap) ==
    IF value >= cap THEN cap
    ELSE IF k = 0 THEN value
    ELSE C27_Capped(value * ExponentialBase, k - 1, cap)

C27_Expected ==
    C27_Capped(delay_ret.config.initial_delay, delay_ret.attempt,
               delay_ret.config.max_delay)

C27_DelayFormula ==
    delay_ret.how # "none" =>
        /\ delay_ret.how = "return"
        /\ ~delay_ret.config.jitter => delay_ret.delay = C27_Expected
        /\ delay_ret.config.jitter =>
              /\ 2 * delay_ret.delay >= C27_Expected
              /\ delay_ret.delay <= C27_Expected
        /\ delay_ret.delay <= delay_ret.config.max_delay

(***************************************************************************)
(* C28: once cancel_workflow has set a workflow's status to "cancelled",   *)
(* get_workflow_status never again reports "running", "completed" or       *)
(* "failed" for that workflow, whatever the still-running pipeline task     *)
(* does afterwards.                                                        *)
(***************************************************************************)
C28_CancelledStays ==
    \A w \in RunIds :
        cancelled_at[w] # {} =>
            \A s \in get_workflow_status(w) :
                s.status \notin {"running", "completed", "failed"}

(***************************************************************************)
(* C29: in the step-graph engine, whenever the persisted status of the     *)
(* workflow is COMPLETED, every step of its step list is in                *)
(* steps_completed and steps_failed is empty, for any dependency graph     *)
(* (dependencies on missing or failed steps and cycles included) and after *)
(* any resume_workflow.                                                    *)
(***************************************************************************)
C29_CompletedMeansAllDone ==
    (ws_stored /\ wf.status = "completed") =>
        /\ \A i \in 1..Len(exec_steps) :
              exec_steps[i].id \in Range(wf.steps_completed)
        /\ wf.steps_failed = <<>>

(***************************************************************************)
(* C30: for a given workflow_id the engine executes exactly one step at a  *)
(* time: at no instant are two step executions of the workflow in          *)
(* progress, for any interleaving of execute_workflow, resume_workflow and *)
(* cancel_workflow calls on that workflow.                                 *)
(***************************************************************************)
C30_InProgress == {l \in Loops : loop_pc[l] = "attempt"}

C30_OneStepAtATime == Cardinality(C30_InProgress) <= 1

(***************************************************************************)
(* C31: before the first attempt of every step the engine persists a       *)
(* checkpoint holding state_data and steps_completed as they were at that   *)
(* moment, so the stored checkpoint never contains the output of, nor      *)
(* lists as completed, the step that is currently executing.               *)
(***************************************************************************)
C31_Executing == {l \in Loops : loop_pc[l] \in {"attempt", "sleep"}}

\* A step loop starts the first attempt of a step.
C31_FirstAttemptStep ==
    \A l \in Loops :
        (/\ loop_pc'[l] = "attempt"
         /\ loop_attempt'[l] = 0
         /\ LoopEvents(l, attempt_log') # LoopEvents(l, attempt_log)) =>
            /\ checkpoint'.saved
            /\ checkpoint'.state_data = wf'.state_data
            /\ checkpoint'.steps_completed = wf'.steps_completed
            /\ loop_cur'[l].id \notin checkpoint'.state_data
            /\ loop_cur'[l].id \notin Range(checkpoint'.steps_completed)

C31_CheckpointExcludesCurrent ==
    \A l \in C31_Executing :
        /\ loop_cur[l].id \notin checkpoint.state_data
        /\ loop_cur[l].id \notin Range(checkpoint.steps_completed)

C31_CheckpointBeforeStep ==
    /\ [][C31_FirstAttemptStep]_vars
    /\ [](C31_CheckpointExcludesCurrent)

(***************************************************************************)
(* C32: a step is attempted at most retry_count + 1 times; an attempt that *)
(* raises or exceeds step.timeout counts as failed; failed attempt k       *)
(* (0-based, k < retry_count) is followed by a wait of retry_delay * 2^k   *)
(* before the next attempt; after the last failed attempt that attempt's   *)
(* error is raised to the step loop.                                       *)
(***************************************************************************)
C32_AttemptsBounded ==
    /\ \A l \in Loops :
          loop_pc[l] \in {"attempt", "sleep", "raised"} =>
              loop_attempt[l] <= loop_cur[l].retry_count
    /\ \A e \in attempt_log :
          \E i \in 1..Len(exec_steps) :
              exec_steps[i].id = e.step /\ e.attempt <= exec_steps[i].retry_count

\* The awaited attempt of loop l has ended in this step.
C32_AttemptEnded(l) ==
    /\ loop_pc[l] = "attempt"
    /\ loop_pc'[l] # "cancelled"
    /\ loop_pc'[l] # "attempt" \/ wf' # wf

C32_RetryStep ==
    \A l \in Loops :
        /\ C32_AttemptEnded(l) =>
              LET k == loop_attempt[l]
                  failed == loop_outcome'[l] \in {"error", "timeout"}
              IN  /\ loop_outcome'[l] \in AttemptOutcomes
                  /\ (failed /\ k < loop_cur[l].retry_count) =>
                        /\ loop_pc'[l] = "sleep"
                        /\ loop_delay'[l] = StepRetryDelay * Pow(2, k)
                        /\ loop_attempt'[l] = k
                  /\ (failed /\ k >= loop_cur[l].retry_count) =>
                        /\ loop_pc'[l] = "raised"
                        /\ loop_exc'[l].kind =
                              IF loop_outcome'[l] = "timeout"
                              THEN "TimeoutError" ELSE "Exception"
                  /\ ~failed =>
                        /\ loop_pc'[l] \in {"attempt", "finished"}
                        /\ loop_cur[l].id \in Range(wf'.steps_completed)
        /\ (loop_pc[l] = "sleep" /\ loop_pc'[l] = "attempt") =>
              /\ loop_attempt'[l] = loop_attempt[l] + 1
              /\ loop_cur'[l] = loop_cur[l]
              /\ [loop |-> l, step |-> loop_cur[l].id,
                  attempt |-> loop_attempt[l] + 1] \in
                    {[loop |-> e.loop, step |-> e.step, attempt |-> e.attempt] :
                        e \in attempt_log'}

C32_StepRetry == [](C32_AttemptsBounded) /\ [][C32_RetryStep]_vars

\* A step with two retries has failed three times, last by its timeout,
\* after waits of 30 and 60 seconds.
C32_Witness ==
    /\ loop_pc[0] = "raised"
    /\ loop_cur[0].retry_count = 2
    /\ loop_attempt[0] = 2
    /\ loop_delay[0] = 60
    /\ loop_outcome[0] = "timeout"
    /\ loop_exc[0].kind = "TimeoutError"
    /\ \A n \in 0..2 : \E e \in attempt_log : e.step = loop_cur[0].id /\ e.attempt = n

(***************************************************************************)
(* C33: execute_workflow takes the workflow-timeout path (running          *)
(* _handle_workflow_timeout and returning the workflow-timeout error) only *)
(* when the overall 3600-second limit has elapsed; a step that fails       *)
(* because every attempt exceeded its own step.timeout is reported through *)
(* the ordinary step-failure path with that step's error.                  *)
(***************************************************************************)
C33_ReturnStep ==
    (exec_pc # "returned" /\ exec_pc' = "returned") =>
        /\ exec_ret'.error = TimeoutMessage => exec_pc = "timed_out"
        /\ (exec_pc = "waiting" /\ loop_pc[0] = "raised") =>
              /\ exec_ret'.error = loop_exc[0].msg
              /\ wf' = wf
              /\ active' = active

C33_TimeoutPathOnlyOnLimit == [][C33_ReturnStep]_vars

(***************************************************************************)
(* C34: cancel_workflow invoked on a workflow whose persisted status is    *)
(* already COMPLETED or FAILED leaves that status unchanged, and after     *)
(* cancel_workflow on a running workflow the persisted status is CANCELLED *)
(* and is not overwritten by the cancelled task.                           *)
(***************************************************************************)
\* Only cancel_workflow writes the status "cancelled".
C34_TerminalKept ==
    wf.status \in {"completed", "failed"} => wf'.status # "cancelled"

\* The status "cancelled" is not changed by a step of execute_workflow's task.
C34_TaskKeepsCancelled ==
    (wf.status = "cancelled" /\ wf'.status # "cancelled") =>
        loop_pc'[0] = loop_pc[0]

C34_CancelStatus == [][C34_TerminalKept /\ C34_TaskKeepsCancelled]_vars

(***************************************************************************)
(* C35: a persisted workflow row is mutated only until it reaches a        *)
(* terminal status: once its status is completed, failed or cancelled, no  *)
(* update_workflow_step or mark_workflow_failed call changes the status to *)
(* running or paused, and completed_at is set exactly when the status is   *)
(* terminal.                                                               *)
(***************************************************************************)
C35_TerminalStep ==
    \A r \in workflow_states :
        r.status \in {"completed", "failed", "cancelled"} =>
            \A n \in workflow_states' :
                n.workflow_id = r.workflow_id =>
                    n.status \notin {"running", "paused"}

C35_CompletedAt ==
    \A r \in workflow_states :
        r.completed_at <=> r.status \in {"completed", "failed", "cancelled"}

C35_TerminalIsFinal == [][C35_TerminalStep]_vars /\ [](C35_CompletedAt)

(***************************************************************************)
(* Websocket-sync access claims                                            *)
(***************************************************************************)
\* The step is an agent_update of the caller and workflow whose agent_update
\* was answered 200 just before: it is not refused with 403.
C36_AcceptedStep ==
    (/\ sync_ret.op = "agent_update"
     /\ sync_ret.code = 200
     /\ sync_ret' # sync_ret
     /\ sync_ret'.op = "agent_update"
     /\ sync_ret'.caller = sync_ret.caller
     /\ sync_ret'.workflow_id = sync_ret.workflow_id) =>
        sync_ret'.code # 403

\* An agent_update on a workflow the registry holds is refused unless the
\* tenant_id of the entry is the caller's.
C36_RegistryDenies ==
    (/\ sync_ret.op = "agent_update"
     /\ sync_ret.owner # NoOwner
     /\ sync_ret.owner # sync_ret.caller) =>
        sync_ret.code = 403

\* C36: once an agent_update of tenant T for workflow W was accepted, a later
\* agent_update of T for W is accepted while W is not unregistered, and no
\* agent_update of another tenant for W is accepted from the registry.
C36_AccessIsStable == [][C36_AcceptedStep]_vars /\ [](C36_RegistryDenies)

(***************************************************************************)
(* TimeoutManager claims                                                   *)
(***************************************************************************)
\* A call whose coroutine returned within the timeout returns its result.
C37_OwnResult ==
    \A c \in Calls :
        (tm_pc[c] = "ended" /\ tm_task_state[c] = "done") =>
            tm_ret[c] = [how |-> "returned", result |-> c]

\* No call in progress: active_tasks is empty.
C37_EmptyWhenIdle ==
    (\A c \in Calls : tm_pc[c] \in {"idle", "ended"}) =>
        DOMAIN active_tasks = {}

\* C37: whatever the interleaving of execute_with_timeout and cancel_task
\* calls, calls sharing a task_id included, a coroutine that completes within
\* its timeout has its result returned to its own caller, and active_tasks is
\* empty when no call is in progress.
C37_Bookkeeping == C37_OwnResult /\ C37_EmptyWhenIdle

(***************************************************************************)
(* ErrorRecoveryManager claims                                             *)
(***************************************************************************)
C38_Saved(w, s) == w \in DOMAIN checkpoints /\ s \in DOMAIN checkpoints[w]

\* The step is a recover_from_error on a (workflow_id, stage) that has a
\* checkpoint: it returns the data of the checkpoint and does not call the
\* recovery function.
C38_RecoverStep ==
    (ckpt_ret' # ckpt_ret /\ ckpt_ret'.op = "recover_from_error") =>
        LET w == ckpt_ret'.workflow_id
            s == ckpt_ret'.stage
        IN  C38_Saved(w, s) =>
                /\ ckpt_ret'.result = {checkpoints[w][s].data}
                /\ ~ckpt_ret'.recovery_called

\* C38: recover_from_error prefers a saved checkpoint, whatever its data, to
\* the recovery function, which is called only when there is no checkpoint of
\* the workflow and stage.
C38_CheckpointPreferred == [][C38_RecoverStep]_vars

(***************************************************************************)
(* ContextPreservation claims                                              *)
(***************************************************************************)
\* The segments n-4 .. n (1 .. n when n < 5), in the order of the calls.
C39_LastSegments(n) ==
    [i \in 1 .. Min(n, 5) |-> n - Min(n, 5) + i]

\* The list returned by the n-th call holds the last min(n, 5) segments.
C39_Returned ==
    ctx_ret.op = "preserve_across_segments" =>
        \A id \in ctx_ret.context.previous_segments :
            list_heap[id] = C39_LastSegments(segment_calls)

\* No list of a context on the stack has more than five entries.
C39_StackCapped ==
    \A i \in DOMAIN context_stack :
        \A id \in context_stack[i].previous_segments :
            Len(list_heap[id]) <= 5

\* C39: after n calls of preserve_across_segments the returned
\* 'previous_segments' holds the last min(n, 5) segments in call order, and
\* no 'previous_segments' of a context on the stack has more than 5 entries.
C39_RollingList == C39_Returned /\ C39_StackCapped

(***************************************************************************)
(* SystemMonitor activity claims                                           *)
(***************************************************************************)
\* C40: after any register_agent_activity and unregister_agent_activity
\* calls, a tenant is in active_tenants exactly when an agent registered for
\* it is still in active_agents.
C40_ActiveTenants ==
    \A t \in Tenants :
        t \in active_tenants <=>
            \E a \in active_agents : <<a, t>> \in agent_tenants

====
